---- MODULE Spec2Model ----
(***************************************************************************)
(* MetalLB UPnP IGD speaker: the protocol client (internal/upnp/client.go) *)
(* and the mapping-lifecycle / election controller                         *)
(* (speaker/upnp_controller.go).                                           *)
(*                                                                         *)
(* Go strings that the code converts or compares (protocols, annotation    *)
(* values, node names) are sequences of byte codes, so that ToUpper,       *)
(* ToLower and the < order on strings are computed, not assumed.           *)
(***************************************************************************)
EXTENDS Integers, Sequences, FiniteSets, TLC

VARIABLES
    mappings,   \* upnpController.mappings: service key -> sequence of PortMapping
    router,     \* the IGD device's port-mapping table: <<port, protocol>> -> entry
    igd,        \* the IGDClient: version, client1/client2 present, externalIP
    last,       \* what the last handler call did: inputs, device calls, result
    snap,       \* the cluster snapshot: pools' UPnP advertisements, nodes
    res,        \* the elected owner of every pool and the last ShouldAnnounce
                \* verdict, both computed on snap
    config,     \* upnpController.config
    mutex,      \* upnpController.mutex: "free" or the goroutine holding it
    frames      \* every goroutine's position in the handler it is running
                \* and that handler's local variables

\* the controller's lock and the goroutines calling into it
conc == <<config, mutex, frames>>

vars == <<mappings, router, igd, last, snap, res, config, mutex, frames>>

-----------------------------------------------------------------------------
(* Bounds *)

\* Longest svc.Spec.Ports list a service is given.
MaxPorts == 2
\* Most device calls that fail within one handler call.
MaxFails == 1
\* Most advertisements a pool is given.
MaxAdvs == 2

-----------------------------------------------------------------------------
(* Go strings as byte sequences *)

s_TCP == <<84, 67, 80>>                    \* "TCP"
s_UDP == <<85, 68, 80>>                    \* "UDP"
s_SCTP == <<83, 67, 84, 80>>               \* "SCTP"
s_tcp == <<116, 99, 112>>                  \* "tcp"
s_udp == <<117, 100, 112>>                 \* "udp"
s_Tcp == <<84, 99, 112>>                   \* "Tcp"
s_uDP == <<117, 68, 80>>                   \* "uDP"
s_sctp == <<115, 99, 116, 112>>            \* "sctp"
s_INVALID == <<73, 78, 86, 65, 76, 73, 68>> \* "INVALID"
s_empty == <<>>                            \* ""
s_true == <<116, 114, 117, 101>>           \* "true"
s_True == <<84, 114, 117, 101>>            \* "True"
s_false == <<102, 97, 108, 115, 101>>      \* "false"

\* ToUpper leaving the text as it is
ToUpper_asIs(s) == s

\* strings.ToUpper on ASCII text
ToUpper(s) == [i \in 1..Len(s) |-> IF s[i] \in 97..122 THEN s[i] - 32 ELSE s[i]]

\* strings.ToLower on ASCII text
ToLower(s) == [i \in 1..Len(s) |-> IF s[i] \in 65..90 THEN s[i] + 32 ELSE s[i]]

\* Go's a < b on strings: byte-wise lexicographic order
RECURSIVE StrLess(_, _)
StrLess(a, b) ==
    IF b = <<>> THEN FALSE
    ELSE IF a = <<>> THEN TRUE
    ELSE IF a[1] # b[1] THEN a[1] < b[1]
    ELSE StrLess(Tail(a), Tail(b))

\* a > b taken the wrong way round
StrGreater_reversed(a, b) == StrLess(a, b)

\* Go's a > b on strings
StrGreater(a, b) == StrLess(b, a)

\* uint16(x) of a Go int
Uint16(x) == x % 65536

-----------------------------------------------------------------------------
(* Values *)

NoErr == "nil"
\* a nil *PortMapping
NilMapping == [nil |-> TRUE]

\* annotation keys of upnp_controller.go
UPnPEnabledAnnotation == "metallb.universe.tf/upnp-enabled"
UPnPDescriptionAnnotation == "metallb.universe.tf/upnp-description"
UPnPDurationAnnotation == "metallb.universe.tf/upnp-duration"
DefaultUPnPDescription == "MetalLB LoadBalancer"
DefaultUPnPDuration == 0

\* svc.Annotations == nil
NilAnnotations == [nilMap |-> <<>>]

-----------------------------------------------------------------------------
(* The IGD device (WANIPConnection service), as the client drives it *)

\* Responses of the device, or of the transport, to one control action.
r_OK == "OK"
r_NoSuchEntry == "NoSuchEntryInArray"          \* UPnP fault 714
r_IndexInvalid == "SpecifiedArrayIndexInvalid" \* UPnP fault 713
r_ActionFailed == "ActionFailed"               \* UPnP fault 501
r_Transport == "transport error"

\* The UPnP error code of a response (0: none, a success or a transport failure)
FaultCode(resp) ==
    IF resp = r_NoSuchEntry THEN 714
    ELSE IF resp = r_IndexInvalid THEN 713
    ELSE IF resp = r_ActionFailed THEN 501
    ELSE 0

\* "NoSuchEntryInArray"
t_NoSuchEntryInArray ==
    <<78, 111, 83, 117, 99, 104, 69, 110, 116, 114, 121, 73, 110, 65, 114,
    114, 97, 121>>
\* "SpecifiedArrayIndexInvalid"
t_SpecifiedArrayIndexInvalid ==
    <<83, 112, 101, 99, 105, 102, 105, 101, 100, 65, 114, 114, 97, 121, 73,
    110, 100, 101, 120, 73, 110, 118, 97, 108, 105, 100>>
\* "UPnPError 714 NoSuchEntryInArray"
t_Fault714 ==
    <<85, 80, 110, 80, 69, 114, 114, 111, 114, 32, 55, 49, 52, 32, 78, 111,
    83, 117, 99, 104, 69, 110, 116, 114, 121, 73, 110, 65, 114, 114, 97, 121>>
\* "UPnPError 713 SpecifiedArrayIndexInvalid"
t_Fault713 ==
    <<85, 80, 110, 80, 69, 114, 114, 111, 114, 32, 55, 49, 51, 32, 83, 112,
    101, 99, 105, 102, 105, 101, 100, 65, 114, 114, 97, 121, 73, 110, 100,
    101, 120, 73, 110, 118, 97, 108, 105, 100>>
\* "UPnPError 501 Action Failed"
t_Fault501 ==
    <<85, 80, 110, 80, 69, 114, 114, 111, 114, 32, 53, 48, 49, 32, 65, 99,
    116, 105, 111, 110, 32, 70, 97, 105, 108, 101, 100>>
\* "i/o timeout"
t_Timeout ==
    <<105, 47, 111, 32, 116, 105, 109, 101, 111, 117, 116>>

\* err.Error() of the error the device call returns for a response: a SOAP
\* fault renders its UPnP error code and description, a transport failure its
\* cause
ErrorText(resp) ==
    IF resp = r_NoSuchEntry THEN t_Fault714
    ELSE IF resp = r_IndexInvalid THEN t_Fault713
    ELSE IF resp = r_ActionFailed THEN t_Fault501
    ELSE IF resp = r_Transport THEN t_Timeout
    ELSE s_empty

Slot(port, proto) == <<port, proto>>

\* The table after AddPortMapping(remoteHost "", port, proto, iport, client,
\* enabled, description, lease) answered with resp: an entry is created or
\* overwritten exactly when the device answers OK.
DeviceAdd(rt, call, resp) ==
    IF resp = r_OK
    THEN [s \in DOMAIN rt \cup {Slot(call.ExternalPort, call.Protocol)} |->
            IF s = Slot(call.ExternalPort, call.Protocol)
            THEN [InternalClient |-> call.InternalClient,
                  InternalPort |-> call.InternalPort,
                  Enabled |-> call.Enabled,
                  Description |-> call.Description,
                  Lease |-> call.Lease]
            ELSE rt[s]]
    ELSE rt

\* The table after DeletePortMapping(remoteHost "", port, proto) answered with
\* resp: the entry is removed exactly when the device answers OK.
DeviceDelete(rt, call, resp) ==
    IF resp = r_OK
    THEN [s \in DOMAIN rt \ {Slot(call.ExternalPort, call.Protocol)} |-> rt[s]]
    ELSE rt

\* The device's answer to a control action: a call that fails (a fault, or a
\* transport failure) leaves the table as it was; a delete that goes through
\* answers OK for a present entry and the no-such-entry fault for an absent one.
Respond(rt, call, fails) ==
    IF fails THEN r_ActionFailed
    ELSE IF call.op = "DeletePortMapping"
            /\ Slot(call.ExternalPort, call.Protocol) \notin DOMAIN rt
    THEN r_NoSuchEntry
    ELSE r_OK

\* The failures of one control action: a device fault or a transport failure
Failures == {r_ActionFailed, r_IndexInvalid, r_Transport}

\* The answer to a control action that fails with failure, or goes through
\* when failure is r_OK
RespondWith(rt, call, failure) ==
    IF failure # r_OK THEN failure ELSE Respond(rt, call, FALSE)

SlotLess(a, b) == a[1] < b[1] \/ (a[1] = b[1] /\ StrLess(a[2], b[2]))

\* The device's port mapping array: the entries of its table, here in the
\* order of their external port and protocol
RECURSIVE ArrayOf(_)
ArrayOf(rt) ==
    IF DOMAIN rt = {} THEN <<>>
    ELSE LET first == CHOOSE s \in DOMAIN rt :
                        \A u \in DOMAIN rt : u = s \/ SlotLess(s, u)
         IN <<first>> \o ArrayOf([u \in DOMAIN rt \ {first} |-> rt[u]])

\* The device's answer to GetGenericPortMappingEntry(index). Past the end of
\* its array a device answers with fault 713; dev.endless is a device that
\* never does, and answers every index with an entry of its array. The query
\* number dev.failAt fails with dev.failure when that is not r_OK.
GetGenericPortMappingEntry(rt, index, dev) ==
    LET array == ArrayOf(rt)
        entryAt(i) ==
            [resp |-> r_OK,
             ExternalPort |-> array[i][1], Protocol |-> array[i][2],
             InternalPort |-> rt[array[i]].InternalPort,
             InternalClient |-> rt[array[i]].InternalClient,
             Enabled |-> rt[array[i]].Enabled,
             Description |-> rt[array[i]].Description,
             Lease |-> rt[array[i]].Lease]
    IN IF dev.failure # r_OK /\ index = dev.failAt THEN [resp |-> dev.failure]
       ELSE IF index < Len(array) THEN entryAt(index + 1)
       ELSE IF dev.endless /\ Len(array) > 0 THEN entryAt((index % Len(array)) + 1)
       ELSE [resp |-> r_IndexInvalid]

-----------------------------------------------------------------------------
(* internal/upnp/client.go *)

\* IGDClient.IsAvailable
IsAvailable(c) ==
    (c.version = 1 /\ c.client1) \/ (c.version = 2 /\ c.client2)

\* The arguments AddPortMapping hands to the device.
AddCall(m, protocol) ==
    [op |-> "AddPortMapping",
     RemoteHost |-> s_empty,
     ExternalPort |-> Uint16(m.ExternalPort),
     Protocol |-> protocol,
     InternalPort |-> Uint16(m.InternalPort),
     InternalClient |-> m.InternalIP,
     Enabled |-> TRUE,
     Description |-> m.Description,
     Lease |-> m.Duration]   \* uint32(): durations here are in 0..2^31-1

\* The arguments DeletePortMapping hands to the device.
DeleteCall(externalPort, protocol) ==
    [op |-> "DeletePortMapping",
     RemoteHost |-> s_empty,
     ExternalPort |-> Uint16(externalPort),
     Protocol |-> protocol]

\* AddPortMapping losing the device's error
AddPortMapping_swallowsError(c, rt, m, resp) ==
    IF m = NilMapping
    THEN [err |-> "port mapping cannot be nil", calls |-> <<>>, router |-> rt]
    ELSE LET protocol == ToUpper(m.Protocol) IN
         IF protocol # s_TCP /\ protocol # s_UDP
         THEN [err |-> "invalid protocol", calls |-> <<>>, router |-> rt]
         ELSE IF ~IsAvailable(c)
         THEN [err |-> "no IGD client available", calls |-> <<>>, router |-> rt]
         ELSE LET call == AddCall(m, protocol) IN
              [err |-> NoErr,
               calls |-> <<[call |-> call, resp |-> resp]>>,
               router |-> DeviceAdd(rt, call, resp)]

\* IGDClient.AddPortMapping(mapping), the device answering resp if it is
\* called: the error returned, the device calls issued, the device's table.
AddPortMapping(c, rt, m, resp) ==
    IF m = NilMapping
    THEN [err |-> "port mapping cannot be nil", calls |-> <<>>, router |-> rt]
    ELSE LET protocol == ToUpper(m.Protocol) IN
         IF protocol # s_TCP /\ protocol # s_UDP
         THEN [err |-> "invalid protocol", calls |-> <<>>, router |-> rt]
         ELSE IF ~IsAvailable(c)
         THEN [err |-> "no IGD client available", calls |-> <<>>, router |-> rt]
         ELSE LET call == AddCall(m, protocol) IN
              [err |-> IF resp # r_OK THEN "failed to add port mapping" ELSE NoErr,
               calls |-> <<[call |-> call, resp |-> resp]>>,
               router |-> DeviceAdd(rt, call, resp)]

\* strings.Contains(s, substr)
Contains(s, substr) ==
    \E i \in 0..(Len(s) - Len(substr)) : SubSeq(s, i + 1, i + Len(substr)) = substr

\* the absent-entry test finding nothing
IsAbsentError_never(resp) == FALSE

\* strings.Contains(err.Error(), "NoSuchEntryInArray") ||
\* strings.Contains(err.Error(), "SpecifiedArrayIndexInvalid")
IsAbsentError(resp) ==
    \/ Contains(ErrorText(resp), t_NoSuchEntryInArray)
    \/ Contains(ErrorText(resp), t_SpecifiedArrayIndexInvalid)

\* DeletePortMapping without the protocol check
DeletePortMapping_unchecked(c, rt, externalPort, proto, resp) ==
    LET protocol == ToUpper(proto) IN
    IF ~IsAvailable(c)
    THEN [err |-> "no IGD client available", calls |-> <<>>, router |-> rt]
    ELSE LET call == DeleteCall(externalPort, protocol) IN
         [err |-> IF resp # r_OK /\ ~IsAbsentError(resp)
                  THEN "failed to delete port mapping" ELSE NoErr,
          calls |-> <<[call |-> call, resp |-> resp]>>,
          router |-> DeviceDelete(rt, call, resp)]

\* IGDClient.DeletePortMapping(externalPort, protocol)
DeletePortMapping(c, rt, externalPort, proto, resp) ==
    LET protocol == ToUpper(proto) IN
    IF protocol # s_TCP /\ protocol # s_UDP
    THEN [err |-> "invalid protocol", calls |-> <<>>, router |-> rt]
    ELSE IF ~IsAvailable(c)
    THEN [err |-> "no IGD client available", calls |-> <<>>, router |-> rt]
    ELSE LET call == DeleteCall(externalPort, protocol) IN
         [err |-> IF resp # r_OK /\ ~IsAbsentError(resp)
                  THEN "failed to delete port mapping" ELSE NoErr,
          calls |-> <<[call |-> call, resp |-> resp]>>,
          router |-> DeviceDelete(rt, call, resp)]

\* The arguments GetPortMappings hands to the device.
GetEntryCall(index) ==
    [op |-> "GetGenericPortMappingEntry", Index |-> Uint16(index)]

NilIP == "<nil>"

\* the address texts net.ParseIP accepts
ParsableIPs == {"192.168.1.240", "192.168.1.100", "203.0.113.1", "198.51.100.7"}

\* net.ParseIP(s): the address, written as its text, or nil
ParseIP(s) == IF s \in ParsableIPs THEN s ELSE NilIP

\* the safety limit of GetPortMappings
SafetyLimit == 1000

\* GetPortMappings up to its loop: no mapping collected, index 0
GetPortMappingsBegin ==
    [pc |-> "loop", index |-> 0, mappings |-> <<>>, err |-> NoErr,
     queries |-> 0, query |-> [none |-> TRUE]]

\* One iteration of the loop of GetPortMappings in state st: the query of
\* st.index, then a break, a return or the next index. st.queries counts the
\* queries issued and st.query is the last of them.
GetPortMappingsLoop(c, rt, dev, st) ==
    IF ~IsAvailable(c)
    THEN [st EXCEPT !.pc = "done", !.mappings = <<>>,
                    !.err = "no IGD client available"]
    ELSE LET e == GetGenericPortMappingEntry(rt, Uint16(st.index), dev)
             asked == [st EXCEPT !.queries = @ + 1,
                                 !.query = [call |-> GetEntryCall(st.index),
                                            resp |-> e.resp]]
         IN IF e.resp # r_OK
            THEN IF \/ Contains(ErrorText(e.resp), t_SpecifiedArrayIndexInvalid)
                    \/ Contains(ErrorText(e.resp), t_NoSuchEntryInArray)
                 THEN [asked EXCEPT !.pc = "done"]
                 ELSE [asked EXCEPT !.pc = "done", !.mappings = <<>>,
                                    !.err = "failed to get port mapping entry"]
            ELSE LET ms == IF e.Enabled /\ ParseIP(e.InternalClient) # NilIP
                           THEN Append(st.mappings,
                                    [ExternalPort |-> e.ExternalPort,
                                     InternalPort |-> e.InternalPort,
                                     InternalIP |-> ParseIP(e.InternalClient),
                                     Protocol |-> e.Protocol,
                                     Description |-> e.Description,
                                     Duration |-> e.Lease])
                           ELSE st.mappings
                 IN [asked EXCEPT !.mappings = ms, !.index = @ + 1,
                                  !.pc = IF st.index + 1 > SafetyLimit
                                         THEN "done" ELSE "loop"]

-----------------------------------------------------------------------------
(* speaker/upnp_controller.go: helpers *)

\* upnpController.isUPnPEnabled
isUPnPEnabled(svc) ==
    IF svc.Annotations = NilAnnotations THEN FALSE
    ELSE IF UPnPEnabledAnnotation \notin DOMAIN svc.Annotations THEN FALSE
    ELSE ToLower(svc.Annotations[UPnPEnabledAnnotation]) = s_true

\* value of a string of decimal digits
RECURSIVE DigitsValue(_, _)
DigitsValue(s, acc) ==
    IF s = <<>> THEN acc ELSE DigitsValue(Tail(s), acc * 10 + (s[1] - 48))

IsDigits(s) == s # <<>> /\ \A i \in 1..Len(s) : s[i] \in 48..57

\* strconv.Atoi: an optional sign, then decimal digits
Atoi(s) ==
    IF s # <<>> /\ s[1] \in {43, 45}
    THEN IF IsDigits(Tail(s))
         THEN [err |-> NoErr,
               val |-> IF s[1] = 45 THEN 0 - DigitsValue(Tail(s), 0)
                       ELSE DigitsValue(Tail(s), 0)]
         ELSE [err |-> "invalid syntax", val |-> 0]
    ELSE IF IsDigits(s) THEN [err |-> NoErr, val |-> DigitsValue(s, 0)]
    ELSE [err |-> "invalid syntax", val |-> 0]

\* getPortMappingDuration returning an hour when no lease is asked for
getPortMappingDuration_hour(svc) ==
    IF svc.Annotations # NilAnnotations
       /\ UPnPDurationAnnotation \in DOMAIN svc.Annotations
       /\ Atoi(svc.Annotations[UPnPDurationAnnotation]).err = NoErr
       /\ Atoi(svc.Annotations[UPnPDurationAnnotation]).val >= 0
    THEN Atoi(svc.Annotations[UPnPDurationAnnotation]).val
    ELSE 3600

\* upnpController.getPortMappingDuration
getPortMappingDuration(svc) ==
    IF svc.Annotations # NilAnnotations
       /\ UPnPDurationAnnotation \in DOMAIN svc.Annotations
       /\ Atoi(svc.Annotations[UPnPDurationAnnotation]).err = NoErr
       /\ Atoi(svc.Annotations[UPnPDurationAnnotation]).val >= 0
    THEN Atoi(svc.Annotations[UPnPDurationAnnotation]).val
    ELSE DefaultUPnPDuration

\* upnpController.getPortMappingDescription: fmt.Sprintf("%s (%s:%d)", ...),
\* kept as the triple of its arguments
getPortMappingDescription(svc, port) ==
    IF svc.Annotations # NilAnnotations
       /\ UPnPDescriptionAnnotation \in DOMAIN svc.Annotations
       /\ svc.Annotations[UPnPDescriptionAnnotation] # s_empty
    THEN <<svc.Annotations[UPnPDescriptionAnnotation], svc.Name, port.Port>>
    ELSE <<DefaultUPnPDescription, svc.Name, port.Port>>

\* cache.SplitMetaNamespaceKey on a key given as its "/"-separated parts
SplitMetaNamespaceKey(key) ==
    IF Len(key) = 1 THEN [err |-> NoErr, Namespace |-> "", Name |-> key[1]]
    ELSE IF Len(key) = 2 THEN [err |-> NoErr, Namespace |-> key[1], Name |-> key[2]]
    ELSE [err |-> "unexpected key format", Namespace |-> "", Name |-> ""]

\* delete(c.mappings, name) leaving the record in place
MapDelete_keeps(m, name) == m

\* delete(c.mappings, name)
MapDelete(m, name) == [k \in DOMAIN m \ {name} |-> m[k]]

\* c.mappings[name] = v
MapPut(m, name, v) == [k \in DOMAIN m \cup {name} |-> IF k = name THEN v ELSE m[k]]

-----------------------------------------------------------------------------
(* speaker/upnp_controller.go: the election *)

\* isNodeReady: the first condition of type Ready decides
RECURSIVE isNodeReady(_)
isNodeReady(conditions) ==
    IF conditions = <<>> THEN FALSE
    ELSE IF conditions[1].Type = "Ready" THEN conditions[1].Status = "True"
    ELSE isNodeReady(Tail(conditions))

ExcludeLabel == "node.kubernetes.io/exclude-from-external-load-balancers"

\* isNodeExcludedFromBalancers
isNodeExcludedFromBalancers(node) == ExcludeLabel \in node.Labels

\* upnpController.poolSupportsUPnP
poolSupportsUPnP(pool) == Len(pool.UPnPAdvertisements) > 0

\* upnpController.nodeMatchesUPnPAdvertisements
nodeMatchesUPnPAdvertisements(myNode, pool) ==
    \E i \in 1..Len(pool.UPnPAdvertisements) :
        /\ pool.UPnPAdvertisements[i].Enabled
        /\ myNode \in pool.UPnPAdvertisements[i].Nodes

\* activeEndpointExists(eps): some endpoint of some slice can serve
activeEndpointExists(eps) == \E i \in 1..Len(eps) : eps[i]

\* the first loop of getEligibleNodes without the readiness test
RECURSIVE CollectEligible_ignoresReady(_, _, _, _)
CollectEligible_ignoresReady(advs, nodes, order, i) ==
    IF i > Len(advs) THEN <<>>
    ELSE IF ~advs[i].Enabled THEN CollectEligible_ignoresReady(advs, nodes, order, i + 1)
    ELSE SelectSeq(order, LAMBDA n :
                /\ n \in advs[i].Nodes
                /\ n \in DOMAIN nodes
                /\ ~isNodeExcludedFromBalancers(nodes[n]))
            \o CollectEligible_ignoresReady(advs, nodes, order, i + 1)

\* the first loop of getEligibleNodes: for every enabled advertisement, the
\* names of adv.Nodes in the order the map is ranged over (order: a sequence
\* of all node names), kept when the node exists, is ready and not excluded.
\* adv.Nodes is the set of the map's keys: the configuration stores true for
\* every node it names.
RECURSIVE CollectEligible(_, _, _, _)
CollectEligible(advs, nodes, order, i) ==
    IF i > Len(advs) THEN <<>>
    ELSE IF ~advs[i].Enabled THEN CollectEligible(advs, nodes, order, i + 1)
    ELSE SelectSeq(order, LAMBDA n :
                /\ n \in advs[i].Nodes
                /\ n \in DOMAIN nodes
                /\ isNodeReady(nodes[n].Conditions)
                /\ ~isNodeExcludedFromBalancers(nodes[n]))
            \o CollectEligible(advs, nodes, order, i + 1)

\* the sort of getEligibleNodes: for i, for j > i, swap when e[i] > e[j]
RECURSIVE SortEligible(_, _, _)
SortEligible(e, i, j) ==
    IF i > Len(e) - 1 THEN e
    ELSE IF j > Len(e) THEN SortEligible(e, i + 1, i + 2)
    ELSE IF StrGreater(e[i], e[j])
    THEN SortEligible([e EXCEPT ![i] = e[j], ![j] = e[i]], i, j + 1)
    ELSE SortEligible(e, i, j + 1)

\* getEligibleNodes leaving the names in the order they were collected
getEligibleNodes_unsorted(pool, nodes, order) ==
    CollectEligible(pool.UPnPAdvertisements, nodes, order, 1)

\* upnpController.getEligibleNodes
getEligibleNodes(pool, nodes, order) ==
    SortEligible(CollectEligible(pool.UPnPAdvertisements, nodes, order, 1), 1, 2)

\* ShouldAnnounce without the election: every advertised node announces
ShouldAnnounce_noElection(myNode, pool, svc, eps, nodes, order) ==
    IF ~isUPnPEnabled(svc) THEN "notOwner"
    ELSE IF ~poolSupportsUPnP(pool) THEN "notOwner"
    ELSE IF ~activeEndpointExists(eps) THEN "notOwner"
    ELSE IF ~nodeMatchesUPnPAdvertisements(myNode, pool) THEN "notOwner"
    ELSE IF Len(getEligibleNodes(pool, nodes, order)) = 0 THEN "notOwner"
    ELSE ""

\* upnpController.ShouldAnnounce on node myNode: "" is the verdict owner
ShouldAnnounce(myNode, pool, svc, eps, nodes, order) ==
    IF ~isUPnPEnabled(svc) THEN "notOwner"
    ELSE IF ~poolSupportsUPnP(pool) THEN "notOwner"
    ELSE IF ~activeEndpointExists(eps) THEN "notOwner"
    ELSE IF ~nodeMatchesUPnPAdvertisements(myNode, pool) THEN "notOwner"
    ELSE IF Len(getEligibleNodes(pool, nodes, order)) = 0 THEN "notOwner"
    ELSE IF getEligibleNodes(pool, nodes, order)[1] # myNode THEN "notOwner"
    ELSE ""

-----------------------------------------------------------------------------
(* speaker/upnp_controller.go: the mapping lifecycle *)

\* DeleteLoop giving up at the first delete that returns an error
RECURSIVE DeleteLoop_stopsAtError(_, _, _, _, _)
DeleteLoop_stopsAtError(c, old, fails, i, st) ==
    IF i > Len(old) THEN st
    ELSE LET call == DeleteCall(old[i].ExternalPort, ToUpper(old[i].Protocol))
             r == DeletePortMapping(c, st.router, old[i].ExternalPort,
                                    old[i].Protocol,
                                    Respond(st.router, call,
                                            (Len(st.calls) + 1) \in fails))
         IN IF r.err # NoErr
            THEN [router |-> r.router, calls |-> st.calls \o r.calls]
            ELSE DeleteLoop_stopsAtError(c, old, fails, i + 1,
                    [router |-> r.router, calls |-> st.calls \o r.calls])

\* the loop of deleteExistingMappings over the recorded mappings, from entry i:
\* every entry is handed to the client, an error is logged and ignored.
\* fails: the positions, in the handler's sequence of device calls, of the
\* calls that fail.
RECURSIVE DeleteLoop(_, _, _, _, _)
DeleteLoop(c, old, fails, i, st) ==
    IF i > Len(old) THEN st
    ELSE LET call == DeleteCall(old[i].ExternalPort, ToUpper(old[i].Protocol))
             r == DeletePortMapping(c, st.router, old[i].ExternalPort,
                                    old[i].Protocol,
                                    Respond(st.router, call,
                                            (Len(st.calls) + 1) \in fails))
         IN DeleteLoop(c, old, fails, i + 1,
                [router |-> r.router, calls |-> st.calls \o r.calls])

\* deleteExistingMappings dropping the record without calling the device
deleteExistingMappings_forgets(c, mp, rt, name, fails) ==
    IF name \notin DOMAIN mp
    THEN [err |-> NoErr, mappings |-> mp, router |-> rt, calls |-> <<>>]
    ELSE [err |-> NoErr, mappings |-> MapDelete(mp, name),
          router |-> rt, calls |-> <<>>]

\* upnpController.deleteExistingMappings(name): always returns nil
deleteExistingMappings(c, mp, rt, name, fails) ==
    IF name \notin DOMAIN mp
    THEN [err |-> NoErr, mappings |-> mp, router |-> rt, calls |-> <<>>]
    ELSE LET st == DeleteLoop(c, mp[name], fails, 1,
                              [router |-> rt, calls |-> <<>>])
         IN [err |-> NoErr, mappings |-> MapDelete(mp, name),
             router |-> st.router, calls |-> st.calls]

\* AddLoop leaving the loops at the first add that fails
RECURSIVE AddLoop_stopsAtFailure(_, _, _, _, _, _)
AddLoop_stopsAtFailure(c, svc, lbIPs, fails, i, st) ==
    IF i > Len(lbIPs) * Len(svc.Ports) THEN st
    ELSE LET lbIP == lbIPs[((i - 1) \div Len(svc.Ports)) + 1]
             port == svc.Ports[((i - 1) % Len(svc.Ports)) + 1]
             protocol == ToLower(port.Protocol)
             mapping == [ExternalPort |-> port.Port,
                         InternalPort |-> port.Port,
                         InternalIP |-> lbIP,
                         Protocol |-> protocol,
                         Description |-> getPortMappingDescription(svc, port),
                         Duration |-> getPortMappingDuration(svc)]
             r == AddPortMapping(c, st.router, mapping,
                                 Respond(st.router, AddCall(mapping, ToUpper(protocol)),
                                         (Len(st.calls) + 1) \in fails))
         IN IF port.Port = 0 THEN AddLoop_stopsAtFailure(c, svc, lbIPs, fails, i + 1, st)
            ELSE IF protocol # s_tcp /\ protocol # s_udp
            THEN AddLoop_stopsAtFailure(c, svc, lbIPs, fails, i + 1, st)
            ELSE IF r.err # NoErr
            THEN [st EXCEPT !.router = r.router,
                            !.calls = @ \o r.calls,
                            !.events = Append(@, "UPnPMappingFailed")]
            ELSE AddLoop_stopsAtFailure(c, svc, lbIPs, fails, i + 1,
                    [st EXCEPT !.router = r.router,
                               !.calls = @ \o r.calls,
                               !.newMappings = Append(@, mapping)])

\* AddLoop without the test for port 0
RECURSIVE AddLoop_keepsPortZero(_, _, _, _, _, _)
AddLoop_keepsPortZero(c, svc, lbIPs, fails, i, st) ==
    IF i > Len(lbIPs) * Len(svc.Ports) THEN st
    ELSE LET lbIP == lbIPs[((i - 1) \div Len(svc.Ports)) + 1]
             port == svc.Ports[((i - 1) % Len(svc.Ports)) + 1]
             protocol == ToLower(port.Protocol)
             mapping == [ExternalPort |-> port.Port,
                         InternalPort |-> port.Port,
                         InternalIP |-> lbIP,
                         Protocol |-> protocol,
                         Description |-> getPortMappingDescription(svc, port),
                         Duration |-> getPortMappingDuration(svc)]
             r == AddPortMapping(c, st.router, mapping,
                                 Respond(st.router, AddCall(mapping, ToUpper(protocol)),
                                         (Len(st.calls) + 1) \in fails))
         IN IF protocol # s_tcp /\ protocol # s_udp
            THEN AddLoop_keepsPortZero(c, svc, lbIPs, fails, i + 1, st)
            ELSE IF r.err # NoErr
            THEN AddLoop_keepsPortZero(c, svc, lbIPs, fails, i + 1,
                    [st EXCEPT !.router = r.router,
                               !.calls = @ \o r.calls,
                               !.events = Append(@, "UPnPMappingFailed")])
            ELSE AddLoop_keepsPortZero(c, svc, lbIPs, fails, i + 1,
                    [st EXCEPT !.router = r.router,
                               !.calls = @ \o r.calls,
                               !.newMappings = Append(@, mapping)])

\* the nested loops of SetBalancer (for lbIP, for port), from iteration i of
\* Len(lbIPs) * Len(svc.Ports)
RECURSIVE AddLoop(_, _, _, _, _, _)
AddLoop(c, svc, lbIPs, fails, i, st) ==
    IF i > Len(lbIPs) * Len(svc.Ports) THEN st
    ELSE LET lbIP == lbIPs[((i - 1) \div Len(svc.Ports)) + 1]
             port == svc.Ports[((i - 1) % Len(svc.Ports)) + 1]
             protocol == ToLower(port.Protocol)
             mapping == [ExternalPort |-> port.Port,
                         InternalPort |-> port.Port,
                         InternalIP |-> lbIP,
                         Protocol |-> protocol,
                         Description |-> getPortMappingDescription(svc, port),
                         Duration |-> getPortMappingDuration(svc)]
             r == AddPortMapping(c, st.router, mapping,
                                 Respond(st.router, AddCall(mapping, ToUpper(protocol)),
                                         (Len(st.calls) + 1) \in fails))
         IN IF port.Port = 0 THEN AddLoop(c, svc, lbIPs, fails, i + 1, st)
            ELSE IF protocol # s_tcp /\ protocol # s_udp
            THEN AddLoop(c, svc, lbIPs, fails, i + 1, st)
            ELSE IF r.err # NoErr
            THEN AddLoop(c, svc, lbIPs, fails, i + 1,
                    [st EXCEPT !.router = r.router,
                               !.calls = @ \o r.calls,
                               !.events = Append(@, "UPnPMappingFailed")])
            ELSE AddLoop(c, svc, lbIPs, fails, i + 1,
                    [st EXCEPT !.router = r.router,
                               !.calls = @ \o r.calls,
                               !.newMappings = Append(@, mapping)])

\* SetBalancer installing the new mappings before it removes the old ones
SetBalancer_installsFirst(c, mp, rt, name, lbIPs, svc, fails) ==
    IF ~isUPnPEnabled(svc)
    THEN [ret |-> NoErr, mappings |-> mp, router |-> rt, calls |-> <<>>,
          notes |-> <<>>, events |-> <<>>]
    ELSE LET a == AddLoop(c, svc, lbIPs, fails, 1,
                          [router |-> rt, calls |-> <<>>,
                           newMappings |-> <<>>, events |-> <<>>])
             d == deleteExistingMappings(c, mp, a.router, name, {})
         IN [ret |-> NoErr,
             mappings |-> MapPut(d.mappings, name, a.newMappings),
             router |-> d.router,
             calls |-> a.calls \o d.calls,
             notes |-> IF Len(a.newMappings) > 0
                       THEN <<[Name |-> svc.Name, Namespace |-> svc.Namespace]>>
                       ELSE <<>>,
             events |-> IF Len(a.newMappings) > 0
                        THEN Append(a.events, "UPnPMappingCreated")
                        ELSE a.events]

\* SetBalancer notifying whether or not a mapping was created
SetBalancer_alwaysNotifies(c, mp, rt, name, lbIPs, svc, fails) ==
    IF ~isUPnPEnabled(svc)
    THEN [ret |-> NoErr, mappings |-> mp, router |-> rt, calls |-> <<>>,
          notes |-> <<>>, events |-> <<>>]
    ELSE LET d == deleteExistingMappings(c, mp, rt, name, fails)
             a == AddLoop(c, svc, lbIPs, fails, 1,
                          [router |-> d.router, calls |-> d.calls,
                           newMappings |-> <<>>, events |-> <<>>])
         IN [ret |-> NoErr,
             mappings |-> MapPut(d.mappings, name, a.newMappings),
             router |-> a.router,
             calls |-> a.calls,
             notes |-> <<[Name |-> svc.Name, Namespace |-> svc.Namespace]>>,
             events |-> Append(a.events, "UPnPMappingCreated")]

\* SetBalancer cleaning up the old mappings before it looks at the annotation
SetBalancer_cleansUnmarked(c, mp, rt, name, lbIPs, svc, fails) ==
    LET d == deleteExistingMappings(c, mp, rt, name, fails)
        a == AddLoop(c, svc, lbIPs, fails, 1,
                     [router |-> d.router, calls |-> d.calls,
                      newMappings |-> <<>>, events |-> <<>>])
    IN IF ~isUPnPEnabled(svc)
       THEN [ret |-> NoErr, mappings |-> d.mappings, router |-> d.router,
             calls |-> d.calls, notes |-> <<>>, events |-> <<>>]
       ELSE [ret |-> NoErr,
             mappings |-> MapPut(d.mappings, name, a.newMappings),
             router |-> a.router,
             calls |-> a.calls,
             notes |-> IF Len(a.newMappings) > 0
                       THEN <<[Name |-> svc.Name, Namespace |-> svc.Namespace]>>
                       ELSE <<>>,
             events |-> IF Len(a.newMappings) > 0
                        THEN Append(a.events, "UPnPMappingCreated")
                        ELSE a.events]

\* upnpController.SetBalancer(name, lbIPs, pool, client, svc)
SetBalancer(c, mp, rt, name, lbIPs, svc, fails) ==
    IF ~isUPnPEnabled(svc)
    THEN [ret |-> NoErr, mappings |-> mp, router |-> rt, calls |-> <<>>,
          notes |-> <<>>, events |-> <<>>]
    ELSE LET d == deleteExistingMappings(c, mp, rt, name, fails)
             a == AddLoop(c, svc, lbIPs, fails, 1,
                          [router |-> d.router, calls |-> d.calls,
                           newMappings |-> <<>>, events |-> <<>>])
         IN [ret |-> NoErr,
             mappings |-> MapPut(d.mappings, name, a.newMappings),
             router |-> a.router,
             calls |-> a.calls,
             notes |-> IF Len(a.newMappings) > 0
                       THEN <<[Name |-> svc.Name, Namespace |-> svc.Namespace]>>
                       ELSE <<>>,
             events |-> IF Len(a.newMappings) > 0
                        THEN Append(a.events, "UPnPMappingCreated")
                        ELSE a.events]

\* DeleteBalancer notifying only when every delete went through
DeleteBalancer_quietOnFailure(c, mp, rt, name, fails) ==
    LET d == deleteExistingMappings(c, mp, rt, name, fails)
        k == SplitMetaNamespaceKey(name)
    IN [ret |-> NoErr, mappings |-> d.mappings, router |-> d.router,
        calls |-> d.calls,
        notes |-> IF \E i \in 1..Len(d.calls) :
                        d.calls[i].resp \notin {r_OK, r_NoSuchEntry}
                  THEN <<>>
                  ELSE <<[Name |-> k.Name, Namespace |-> k.Namespace]>>,
        events |-> <<>>]

\* upnpController.DeleteBalancer(name, reason)
DeleteBalancer(c, mp, rt, name, fails) ==
    LET d == deleteExistingMappings(c, mp, rt, name, fails)
        k == SplitMetaNamespaceKey(name)
    IN IF d.err # NoErr
       THEN [ret |-> d.err, mappings |-> d.mappings, router |-> d.router,
             calls |-> d.calls, notes |-> <<>>, events |-> <<>>]
       ELSE IF k.err # NoErr
       THEN [ret |-> k.err, mappings |-> d.mappings, router |-> d.router,
             calls |-> d.calls, notes |-> <<>>, events |-> <<>>]
       ELSE [ret |-> NoErr, mappings |-> d.mappings, router |-> d.router,
             calls |-> d.calls,
             notes |-> <<[Name |-> k.Name, Namespace |-> k.Namespace]>>,
             events |-> <<>>]

-----------------------------------------------------------------------------
(* The environment of one controller: the calls it receives *)

NoSnap == [none |-> TRUE]

\* no goroutine is calling into the controller
NoConc == <<"", "free", <<>>>>

\* service keys, as their "/"-separated parts
k_a == <<"default", "a">>
k_b == <<"default", "b">>
Keys == {k_a, k_b}

ip1 == "192.168.1.240"
LbIPChoices == {<<ip1>>}

\* the ports a service can expose, in the order it lists them: service a has
\* up to three well-formed ports, service b one well-formed port between
\* malformed ones
PortCatalogue(name) ==
    IF name = k_a
    THEN <<[Port |-> 80, Protocol |-> s_TCP], [Port |-> 80, Protocol |-> s_UDP],
           [Port |-> 443, Protocol |-> s_TCP]>>
    ELSE <<[Port |-> 0, Protocol |-> s_TCP], [Port |-> 80, Protocol |-> s_TCP],
           [Port |-> 80, Protocol |-> s_SCTP]>>

\* the entries of seq at the positions pos, in order
RECURSIVE SubSeqAt(_, _, _)
SubSeqAt(seq, pos, i) ==
    IF i > Len(seq) THEN <<>>
    ELSE IF i \in pos THEN <<seq[i]>> \o SubSeqAt(seq, pos, i + 1)
    ELSE SubSeqAt(seq, pos, i + 1)

\* svc.Spec.Ports: at most MaxPorts entries of the catalogue, no entry twice
\* (the API server rejects a service that repeats a port/protocol pair)
PortLists(name) ==
    {SubSeqAt(PortCatalogue(name), pos, 1) :
        pos \in {q \in SUBSET (1..Len(PortCatalogue(name))) : Cardinality(q) <= MaxPorts}}

AnnotationChoices(name) ==
    IF name = k_a
    THEN {[a \in {UPnPEnabledAnnotation} |-> s_True]}
    ELSE {NilAnnotations,
          [a \in {UPnPEnabledAnnotation} |-> s_True],
          [a \in {UPnPEnabledAnnotation} |-> s_false]}

Services(name) ==
    {[Namespace |-> name[1], Name |-> name[2], Annotations |-> an, Ports |-> ps] :
        an \in AnnotationChoices(name), ps \in PortLists(name)}

\* the sets of failing call positions among n device calls
FailSets(n) == {f \in SUBSET (1..n) : Cardinality(f) <= MaxFails}

Recorded(mp, name) == IF name \in DOMAIN mp THEN mp[name] ELSE <<>>

NoSvc == [Namespace |-> "", Name |-> "", Annotations |-> NilAnnotations, Ports |-> <<>>]

\* a SetBalancer call of the reconciler; any of the device calls may fail
DoSetBalancer ==
    \E name \in Keys, lbIPs \in LbIPChoices :
    \E svc \in Services(name) :
    \E fails \in FailSets(Len(Recorded(mappings, name))
                            + Len(lbIPs) * Len(svc.Ports)) :
        LET r == SetBalancer(igd, mappings, router, name, lbIPs, svc, fails)
        IN /\ fails \subseteq 1..Len(r.calls)
           /\ mappings' = r.mappings
           /\ router' = r.router
           /\ last' = [op |-> "SetBalancer", name |-> name, lbIPs |-> lbIPs,
                       svc |-> svc, calls |-> r.calls, ret |-> r.ret,
                       notes |-> r.notes, events |-> r.events]
           /\ UNCHANGED <<conc, igd, snap, res>>

\* a DeleteBalancer call of the reconciler
DoDeleteBalancer ==
    \E name \in Keys :
    \E fails \in FailSets(Len(Recorded(mappings, name))) :
        LET r == DeleteBalancer(igd, mappings, router, name, fails)
        IN /\ fails \subseteq 1..Len(r.calls)
           /\ mappings' = r.mappings
           /\ router' = r.router
           /\ last' = [op |-> "DeleteBalancer", name |-> name, lbIPs |-> <<>>,
                       svc |-> NoSvc, calls |-> r.calls, ret |-> r.ret,
                       notes |-> r.notes, events |-> r.events]
           /\ UNCHANGED <<conc, igd, snap, res>>

\* the node the controller runs on
myNode == <<110, 49>>

\* the pool, endpoints and nodes ShouldAnnounce is called with: this node
\* named by the pool and ready, with and without an active endpoint, this
\* node not ready, and a pool without UPnP advertisements
AnnounceInputs ==
    LET pool(advs) == [Name |-> "pool-a", UPnPAdvertisements |-> advs]
        adv == [Enabled |-> TRUE, Nodes |-> {myNode}]
        node(st) == [n \in {myNode} |->
                        [Conditions |-> <<[Type |-> "Ready", Status |-> st]>>,
                         Labels |-> {}]]
    IN {[pool |-> pool(<<adv>>), eps |-> <<TRUE>>, nodes |-> node("True")],
        [pool |-> pool(<<adv>>), eps |-> <<>>, nodes |-> node("True")],
        [pool |-> pool(<<adv>>), eps |-> <<TRUE>>, nodes |-> node("False")],
        [pool |-> pool(<<>>), eps |-> <<TRUE>>, nodes |-> node("True")]}

\* the service a key names, as ShouldAnnounce sees it
AnnounceServices(name) ==
    {[Namespace |-> name[1], Name |-> name[2], Ports |-> <<>>, Annotations |-> an] :
        an \in {NilAnnotations, [a \in {UPnPEnabledAnnotation} |-> s_True]}}

\* a ShouldAnnounce call of the reconciler
DoShouldAnnounce ==
    \E name \in Keys, in \in AnnounceInputs :
    \E svc \in AnnounceServices(name) :
        /\ last' = [op |-> "ShouldAnnounce", name |-> name, lbIPs |-> <<>>,
                    svc |-> svc, calls |-> <<>>,
                    ret |-> ShouldAnnounce(myNode, in.pool, svc, in.eps,
                                           in.nodes, <<myNode>>),
                    notes |-> <<>>, events |-> <<>>]
        /\ UNCHANGED <<conc, mappings, router, igd, snap, res>>

Init ==
    /\ mappings = <<>>
    /\ router = <<>>
    /\ igd = [version |-> 2, client1 |-> FALSE, client2 |-> TRUE,
              externalIP |-> "203.0.113.1"]
    /\ last = [op |-> "none", name |-> <<>>, lbIPs |-> <<>>, svc |-> NoSvc,
               calls |-> <<>>, ret |-> NoErr, notes |-> <<>>, events |-> <<>>]
    /\ snap = NoSnap
    /\ res = NoSnap
    /\ config = NoConc[1]
    /\ mutex = NoConc[2]
    /\ frames = NoConc[3]

Next == DoSetBalancer \/ DoDeleteBalancer \/ DoShouldAnnounce

Spec == Init /\ [][Next]_vars

-----------------------------------------------------------------------------
(* The client driven directly, as the package's tests drive it *)

\* the IGDClient values: after discovery of an IGD2 or IGD1 device, and the
\* tests' client with no device (version 0)
ClientStates ==
    {[version |-> 2, client1 |-> FALSE, client2 |-> TRUE, externalIP |-> "203.0.113.1"],
     [version |-> 1, client1 |-> TRUE, client2 |-> FALSE, externalIP |-> "203.0.113.1"],
     [version |-> 0, client1 |-> FALSE, client2 |-> FALSE, externalIP |-> ""]}

ProtocolChoices == {s_TCP, s_tcp, s_Tcp, s_UDP, s_uDP, s_SCTP, s_INVALID, s_empty}

ClientPorts == {80, 8080}

ClientMappings ==
    {[ExternalPort |-> ep, InternalPort |-> 80, InternalIP |-> ip1,
      Protocol |-> pr, Description |-> "Test", Duration |-> 0] :
        ep \in ClientPorts, pr \in ProtocolChoices}

\* AddPortMapping(mapping) called on the client
ClientAddPortMapping ==
    \E m \in ClientMappings \cup {NilMapping}, fails \in BOOLEAN :
        LET resp == IF m = NilMapping THEN r_OK
                    ELSE Respond(router, AddCall(m, ToUpper(m.Protocol)), fails)
            r == AddPortMapping(igd, router, m, resp)
        IN /\ r.calls = <<>> => ~fails
           /\ router' = r.router
           /\ last' = [op |-> "AddPortMapping", mapping |-> m,
                       calls |-> r.calls, ret |-> r.err]
           /\ UNCHANGED <<conc, mappings, igd, snap, res>>

\* DeletePortMapping(externalPort, protocol) called on the client
ClientDeletePortMapping ==
    \E ep \in ClientPorts, pr \in ProtocolChoices, failure \in Failures \cup {r_OK} :
        LET r == DeletePortMapping(igd, router, ep, pr,
                    RespondWith(router, DeleteCall(ep, ToUpper(pr)), failure))
        IN /\ r.calls = <<>> => failure = r_OK
           /\ router' = r.router
           /\ last' = [op |-> "DeletePortMapping", externalPort |-> ep,
                       protocol |-> pr, calls |-> r.calls, ret |-> r.err,
                       again |-> /\ last.op = "DeletePortMapping"
                                 /\ last.externalPort = ep
                                 /\ ToUpper(last.protocol) = ToUpper(pr)
                                 /\ last.ret = NoErr]
           /\ UNCHANGED <<conc, mappings, igd, snap, res>>

InitClient ==
    /\ mappings = <<>>
    /\ router = <<>>
    /\ igd \in ClientStates
    /\ last = [op |-> "none", calls |-> <<>>, ret |-> NoErr]
    /\ snap = NoSnap
    /\ res = NoSnap
    /\ config = NoConc[1]
    /\ mutex = NoConc[2]
    /\ frames = NoConc[3]

NextClient == ClientAddPortMapping \/ ClientDeletePortMapping

SpecClient == InitClient /\ [][NextClient]_vars

-----------------------------------------------------------------------------
(* The enumeration of the device's table *)

\* the entries a device table holds: this node's mapping, a disabled entry,
\* an entry whose internal client is a host name
EntryChoices ==
    {[InternalClient |-> ic, InternalPort |-> 80, Enabled |-> en,
      Description |-> DefaultUPnPDescription, Lease |-> 0] :
        ic \in {ip1}, en \in BOOLEAN}
    \cup {[InternalClient |-> "nas.lan", InternalPort |-> 80, Enabled |-> TRUE,
           Description |-> "nas", Lease |-> 0]}

EnumSlots == {Slot(80, s_TCP), Slot(80, s_UDP), Slot(8080, s_TCP)}

EnumTables == UNION {[S -> EntryChoices] : S \in SUBSET EnumSlots}

\* the tables an endless device is tried on: those of one entry
EndlessTables == {rt \in EnumTables : Cardinality(DOMAIN rt) = 1}

\* a query of index up to MaxFailAt may fail
MaxFailAt == 1

\* the devices: one that answers every query as the standard says, one that
\* never reports the end of its array, and those that fail one query
EnumDevices(rt) ==
    {[endless |-> FALSE, failAt |-> 0, failure |-> r_OK]}
    \cup {[endless |-> TRUE, failAt |-> 0, failure |-> r_OK] : x \in {rt} \cap EndlessTables}
    \cup {[endless |-> FALSE, failAt |-> k, failure |-> f] :
            k \in 0..MaxFailAt, f \in Failures \cup {r_NoSuchEntry}}

\* GetPortMappings() is called on the client
ClientGetPortMappings ==
    \E dev \in EnumDevices(router) :
        /\ last.op = "none"
        /\ last' = [op |-> "GetPortMappings", dev |-> dev, st |-> GetPortMappingsBegin]
        /\ UNCHANGED <<conc, mappings, router, igd, snap, res>>

\* the call of GetPortMappings goes through one iteration of its loop
ClientGetPortMappingsLoop ==
    /\ last.op = "GetPortMappings"
    /\ last.st.pc = "loop"
    /\ last' = [last EXCEPT !.st = GetPortMappingsLoop(igd, router, last.dev, last.st)]
    /\ UNCHANGED <<conc, mappings, router, igd, snap, res>>

InitEnum ==
    /\ mappings = <<>>
    /\ router \in EnumTables
    /\ igd \in ClientStates
    /\ last = [op |-> "none", calls |-> <<>>, ret |-> NoErr]
    /\ snap = NoSnap
    /\ res = NoSnap
    /\ config = NoConc[1]
    /\ mutex = NoConc[2]
    /\ frames = NoConc[3]

NextEnum == ClientGetPortMappings \/ ClientGetPortMappingsLoop

SpecEnum == InitEnum /\ [][NextEnum]_vars

-----------------------------------------------------------------------------
(* The election on a cluster snapshot *)

n_1 == <<110, 49>>          \* "n1"
n_10 == <<110, 49, 48>>     \* "n10"
n_2 == <<110, 50>>          \* "n2"
NodeNames == {n_1, n_10, n_2}

\* the orders in which a range over a map of node names can visit them
Orders ==
    {o \in [1..Cardinality(NodeNames) -> NodeNames] :
        \A i, j \in DOMAIN o : i # j => o[i] # o[j]}

\* a v1.Node: ready, not ready, or ready and excluded from load balancers
NodeChoices ==
    {[Conditions |-> <<[Type |-> "MemoryPressure", Status |-> "False"],
                       [Type |-> "Ready", Status |-> "True"]>>, Labels |-> {}],
     [Conditions |-> <<[Type |-> "Ready", Status |-> "False"]>>, Labels |-> {}],
     [Conditions |-> <<[Type |-> "Ready", Status |-> "True"]>>,
      Labels |-> {ExcludeLabel}]}

Pools == {"pool-a", "pool-b"}

\* the UPnP advertisements a pool's list is drawn from
AdvChoices(p) ==
    IF p = "pool-a"
    THEN {[Enabled |-> TRUE, Nodes |-> {n_1, n_10}],
          [Enabled |-> TRUE, Nodes |-> {n_10, n_2}],
          [Enabled |-> FALSE, Nodes |-> {n_1, n_10}]}
    ELSE {[Enabled |-> TRUE, Nodes |-> {n_10, n_2}]}

\* pool-a carries up to MaxAdvs advertisements, pool-b exactly one
AdvLists(p) ==
    IF p = "pool-a" THEN UNION {[1..n -> AdvChoices(p)] : n \in 0..MaxAdvs}
    ELSE [1..1 -> AdvChoices(p)]

PoolOf(s, p) == [Name |-> p, UPnPAdvertisements |-> s.advs[p]]

None == <<>>

\* the elected node of a pool: the first eligible node, if any
ElectedOf(s, p, order) ==
    IF Len(getEligibleNodes(PoolOf(s, p), s.nodes, order)) = 0 THEN None
    ELSE getEligibleNodes(PoolOf(s, p), s.nodes, order)[1]

\* the service requests ShouldAnnounce is evaluated for
SvcChoices ==
    {[Namespace |-> "default", Name |-> "a", Ports |-> <<>>, Annotations |-> an] :
        an \in {NilAnnotations, [a \in {UPnPEnabledAnnotation} |-> s_True]}}

EpsChoices == {<<>>, <<FALSE, TRUE>>}

NoVerdict == [none |-> TRUE]

\* a node is added, removed, or changes its readiness or labels; every pool's
\* owner is computed anew
NodeChange ==
    \E n \in NodeNames, o \in Orders :
    \E nodes \in {[m \in DOMAIN snap.nodes \ {n} |-> snap.nodes[m]]}
                 \cup {[m \in DOMAIN snap.nodes \cup {n} |->
                            IF m = n THEN k ELSE snap.nodes[m]] : k \in NodeChoices} :
        /\ nodes # snap.nodes
        /\ snap' = [snap EXCEPT !.nodes = nodes]
        /\ res' = [elected |-> [p \in Pools |-> ElectedOf(snap', p, o)],
                   verdict |-> NoVerdict]
        /\ UNCHANGED <<conc, mappings, router, igd, last>>

\* the speaker of every node evaluates ShouldAnnounce for a service of a pool
Evaluate ==
    \E p \in Pools, svc \in SvcChoices, eps \in EpsChoices, o \in Orders :
        /\ res' = [res EXCEPT !.verdict =
                      [pool |-> p, svc |-> svc, eps |-> eps,
                       by |-> [n \in NodeNames |->
                                 ShouldAnnounce(n, PoolOf(snap, p), svc, eps,
                                                snap.nodes, o)]]]
        /\ UNCHANGED <<conc, mappings, router, igd, last, snap>>

InitElection ==
    /\ mappings = <<>>
    /\ router = <<>>
    /\ igd = [version |-> 2, client1 |-> FALSE, client2 |-> TRUE,
              externalIP |-> "203.0.113.1"]
    /\ last = [op |-> "none", calls |-> <<>>, ret |-> NoErr]
    /\ \E advs \in [Pools -> UNION {AdvLists(p) : p \in Pools}] :
        /\ \A p \in Pools : advs[p] \in AdvLists(p)
        /\ snap = [advs |-> advs, nodes |-> [m \in NodeNames |->
                        [Conditions |-> <<[Type |-> "Ready", Status |-> "True"]>>,
                         Labels |-> {}]]]
    /\ \E o \in Orders :
        res = [elected |-> [p \in Pools |-> ElectedOf(snap, p, o)],
               verdict |-> NoVerdict]
    /\ config = NoConc[1]
    /\ mutex = NoConc[2]
    /\ frames = NoConc[3]

NextElection == NodeChange \/ Evaluate

SpecElection == InitElection /\ [][NextElection]_vars

-----------------------------------------------------------------------------
(* The controller under concurrent callers: every handler taken statement    *)
(* by statement, a device call being in flight between the step that issues  *)
(* it and the step that receives its answer                                  *)

\* Most handler calls one goroutine makes.
MaxCalls == 2

Goroutines == {"g1", "g2"}

NoCall == [op |-> "none"]

\* c.mutex.Lock() that returns although another goroutine holds the mutex
Lock_barging(m) == TRUE

\* c.mutex.Lock() returns once no goroutine holds the mutex
Lock(m) == m = "free"

\* the iteration i of the loops over lbIPs and svc.Spec.Ports: whether the
\* port is skipped, and the mapping built for it
PortAt(svc, lbIPs, i) ==
    LET lbIP == lbIPs[((i - 1) \div Len(svc.Ports)) + 1]
        port == svc.Ports[((i - 1) % Len(svc.Ports)) + 1]
        protocol == ToLower(port.Protocol)
    IN [skip |-> port.Port = 0 \/ (protocol # s_tcp /\ protocol # s_udp),
        mapping |-> [ExternalPort |-> port.Port,
                     InternalPort |-> port.Port,
                     InternalIP |-> lbIP,
                     Protocol |-> protocol,
                     Description |-> getPortMappingDescription(svc, port),
                     Duration |-> getPortMappingDuration(svc)]]

\* the services the concurrent callers apply: service a with one of two
\* ports, service b marked or unmarked
ConcServices ==
    {[Namespace |-> k_a[1], Name |-> k_a[2],
      Annotations |-> [a \in {UPnPEnabledAnnotation} |-> s_true],
      Ports |-> <<[Port |-> p, Protocol |-> s_TCP]>>] : p \in {80, 443}}
    \cup
    {[Namespace |-> k_b[1], Name |-> k_b[2],
      Annotations |-> an,
      Ports |-> <<[Port |-> 80, Protocol |-> s_UDP]>>] :
        an \in {NilAnnotations, [a \in {UPnPEnabledAnnotation} |-> s_true]}}

\* the handler calls a goroutine makes
ConcCalls ==
    {[op |-> "SetBalancer", name |-> <<svc.Namespace, svc.Name>>, svc |-> svc,
      lbIPs |-> <<ip1>>, cfg |-> ""] : svc \in ConcServices}
    \cup {[op |-> "DeleteBalancer", name |-> k_a, svc |-> NoSvc,
           lbIPs |-> <<>>, cfg |-> ""]}
    \cup {[op |-> "SetConfig", name |-> <<>>, svc |-> NoSvc,
           lbIPs |-> <<>>, cfg |-> "cfg-1"]}

\* the answers of the device to the concurrent callers
ConcFailures == {r_OK, r_ActionFailed}

IdleFrame ==
    [pc |-> "idle", call |-> NoCall, n |-> 0, old |-> <<>>, i |-> 0,
     newMappings |-> <<>>, inflight |-> NoCall]

\* a goroutine calls SetBalancer, DeleteBalancer or SetConfig
Call(t) ==
    /\ frames[t].pc = "idle"
    /\ frames[t].n < MaxCalls
    /\ \E call \in ConcCalls :
        frames' = [frames EXCEPT ![t] =
                    [IdleFrame EXCEPT !.pc = "lock", !.call = call,
                                      !.n = frames[t].n + 1]]
    /\ UNCHANGED <<mappings, router, igd, last, snap, res, config, mutex>>

\* c.mutex.Lock() at the head of the handler
Acquire(t) ==
    /\ frames[t].pc = "lock"
    /\ Lock(mutex)
    /\ mutex' = t
    /\ frames' = [frames EXCEPT ![t].pc = "entered"]
    /\ UNCHANGED <<mappings, router, igd, last, snap, res, config>>

\* SetConfig: c.config = cfg
StoreConfig(t) ==
    /\ frames[t].pc = "entered"
    /\ frames[t].call.op = "SetConfig"
    /\ config' = frames[t].call.cfg
    /\ frames' = [frames EXCEPT ![t].pc = "return"]
    /\ UNCHANGED <<mappings, router, igd, last, snap, res, mutex>>

\* SetBalancer: the isUPnPEnabled check, then, as in DeleteBalancer, the head
\* of deleteExistingMappings: the read of c.mappings[name]
Enter(t) ==
    LET f == frames[t] IN
    /\ f.pc = "entered"
    /\ f.call.op \in {"SetBalancer", "DeleteBalancer"}
    /\ frames' = [frames EXCEPT ![t] =
            IF f.call.op = "SetBalancer" /\ ~isUPnPEnabled(f.call.svc)
            THEN [f EXCEPT !.pc = "return"]
            ELSE IF f.call.name \notin DOMAIN mappings
            THEN [f EXCEPT !.pc = IF f.call.op = "SetBalancer"
                                  THEN "add" ELSE "notify", !.i = 1]
            ELSE [f EXCEPT !.pc = "delete", !.old = mappings[f.call.name],
                           !.i = 1]]
    /\ UNCHANGED <<mappings, router, igd, last, snap, res, config, mutex>>

\* deleteExistingMappings: the loop hands the next recorded mapping to
\* c.client.DeletePortMapping, which issues the device call; past the last
\* one, delete(c.mappings, name)
DeleteIssue(t) ==
    LET f == frames[t] IN
    /\ f.pc = "delete"
    /\ IF f.i > Len(f.old)
       THEN /\ mappings' = MapDelete(mappings, f.call.name)
            /\ frames' = [frames EXCEPT ![t] =
                    [f EXCEPT !.pc = IF f.call.op = "SetBalancer"
                                     THEN "add" ELSE "notify", !.i = 1]]
       ELSE LET r == DeletePortMapping(igd, router, f.old[f.i].ExternalPort,
                                       f.old[f.i].Protocol, r_OK)
            IN /\ frames' = [frames EXCEPT ![t] =
                    IF r.calls = <<>>
                    THEN [f EXCEPT !.i = f.i + 1]
                    ELSE [f EXCEPT !.pc = "deleting",
                                   !.inflight = r.calls[1].call]]
               /\ UNCHANGED mappings
    /\ UNCHANGED <<router, igd, last, snap, res, config, mutex>>

\* the device answers the delete: DeletePortMapping returns, an error is
\* logged, the loop goes on
DeleteAnswer(t) ==
    LET f == frames[t] IN
    /\ f.pc = "deleting"
    /\ \E failure \in ConcFailures :
        LET r == DeletePortMapping(igd, router, f.old[f.i].ExternalPort,
                                   f.old[f.i].Protocol,
                                   RespondWith(router, f.inflight, failure))
        IN router' = r.router
    /\ frames' = [frames EXCEPT ![t] =
            [f EXCEPT !.pc = "delete", !.inflight = NoCall, !.i = f.i + 1]]
    /\ UNCHANGED <<mappings, igd, last, snap, res, config, mutex>>

\* SetBalancer: the loops hand the next port's mapping to
\* c.client.AddPortMapping, which issues the device call; past the last one,
\* c.mappings[name] = newMappings and the status-change notification
AddIssue(t) ==
    LET f == frames[t] IN
    /\ f.pc = "add"
    /\ IF f.i > Len(f.call.lbIPs) * Len(f.call.svc.Ports)
       THEN /\ mappings' = MapPut(mappings, f.call.name, f.newMappings)
            /\ frames' = [frames EXCEPT ![t].pc = "return"]
       ELSE LET p == PortAt(f.call.svc, f.call.lbIPs, f.i)
                r == AddPortMapping(igd, router, p.mapping, r_OK)
            IN /\ frames' = [frames EXCEPT ![t] =
                    IF p.skip \/ r.calls = <<>>
                    THEN [f EXCEPT !.i = f.i + 1]
                    ELSE [f EXCEPT !.pc = "adding",
                                   !.inflight = r.calls[1].call]]
               /\ UNCHANGED mappings
    /\ UNCHANGED <<router, igd, last, snap, res, config, mutex>>

\* the device answers the add: AddPortMapping returns, the mapping is
\* appended to newMappings unless it failed
AddAnswer(t) ==
    LET f == frames[t] IN
    /\ f.pc = "adding"
    /\ \E failure \in ConcFailures :
        LET p == PortAt(f.call.svc, f.call.lbIPs, f.i)
            r == AddPortMapping(igd, router, p.mapping,
                                RespondWith(router, f.inflight, failure))
        IN /\ router' = r.router
           /\ frames' = [frames EXCEPT ![t] =
                [f EXCEPT !.pc = "add", !.inflight = NoCall, !.i = f.i + 1,
                          !.newMappings = IF r.err # NoErr THEN @
                                          ELSE Append(@, p.mapping)]]
    /\ UNCHANGED <<mappings, igd, last, snap, res, config, mutex>>

\* DeleteBalancer: SplitMetaNamespaceKey and the status-change notification
Notify(t) ==
    /\ frames[t].pc = "notify"
    /\ frames' = [frames EXCEPT ![t].pc = "return"]
    /\ UNCHANGED <<mappings, router, igd, last, snap, res, config, mutex>>

\* the handler returns: the deferred c.mutex.Unlock()
Return(t) ==
    /\ frames[t].pc = "return"
    /\ mutex' = "free"
    /\ last' = [op |-> "return", g |-> t, call |-> frames[t].call,
                newMappings |-> frames[t].newMappings]
    /\ frames' = [frames EXCEPT ![t].pc = "idle"]
    /\ UNCHANGED <<mappings, router, igd, snap, res, config>>

InitConc ==
    /\ mappings = <<>>
    /\ router = <<>>
    /\ igd = [version |-> 2, client1 |-> FALSE, client2 |-> TRUE,
              externalIP |-> "203.0.113.1"]
    /\ last = [op |-> "none", calls |-> <<>>, ret |-> NoErr]
    /\ snap = NoSnap
    /\ res = NoSnap
    /\ config = ""
    /\ mutex = "free"
    /\ frames = [t \in Goroutines |-> IdleFrame]

NextConc ==
    \E t \in Goroutines :
        \/ Call(t)
        \/ Acquire(t)
        \/ StoreConfig(t)
        \/ Enter(t)
        \/ DeleteIssue(t)
        \/ DeleteAnswer(t)
        \/ AddIssue(t)
        \/ AddAnswer(t)
        \/ Notify(t)
        \/ Return(t)

SpecConc == InitConc /\ [][NextConc]_vars

-----------------------------------------------------------------------------
(* internal/upnp/client.go: construction of the client, on a network whose   *)
(* answers to the two discoveries and to the external-address query are      *)
(* given                                                                     *)

\* Most devices that answer one discovery.
MaxDevices == 2

\* the locations of the gateway devices of the network
Locations == {"http://192.168.1.1:5000/a.xml", "http://192.168.1.1:5000/b.xml",
              "http://192.168.1.254:49152/c.xml"}

\* the IGDClient that New starts from, and the client New returns with an error
ZeroClient ==
    [version |-> 0, client1 |-> FALSE, client2 |-> FALSE, externalIP |-> NilIP,
     location |-> ""]
NilClient == [none |-> TRUE]

\* the device lists a discovery returns: the devices that answered, in the
\* order of their answers
DeviceLists ==
    {<<>>} \cup {<<a>> : a \in Locations}
    \cup (IF MaxDevices >= 2
          THEN {<<a, b>> : a \in Locations, b \in Locations} \ 
               {<<a, a>> : a \in Locations}
          ELSE {})
    \cup (IF MaxDevices >= 3
          THEN {l \in {<<a, b, d>> : a \in Locations, b \in Locations,
                                     d \in Locations} :
                    Cardinality({l[1], l[2], l[3]}) = 3}
          ELSE {})

\* what NewWANIPConnection1Clients returns: an error, or the clients
DiscoveryAnswers ==
    {[err |-> TRUE, clients |-> <<>>]}
    \cup {[err |-> FALSE, clients |-> l] : l \in DeviceLists}

\* what GetExternalIPAddress returns: an error, or a text
ExternalIPAnswers ==
    {[err |-> TRUE, ip |-> ""]}
    \cup {[err |-> FALSE, ip |-> a] : a \in {"203.0.113.1", "", "not-an-ip"}}

\* IGDClient.discoverIGD2
discoverIGD2(c, ans) ==
    IF ans.err THEN [err |-> "failed to discover IGD2 clients", c |-> c]
    ELSE IF Len(ans.clients) = 0 THEN [err |-> "no IGD2 devices found", c |-> c]
    ELSE [err |-> NoErr,
          c |-> [c EXCEPT !.client2 = TRUE, !.location = ans.clients[1],
                          !.version = 2]]

\* IGDClient.discoverIGD1
discoverIGD1(c, ans) ==
    IF ans.err THEN [err |-> "failed to discover IGD1 clients", c |-> c]
    ELSE IF Len(ans.clients) = 0 THEN [err |-> "no IGD1 devices found", c |-> c]
    ELSE [err |-> NoErr,
          c |-> [c EXCEPT !.client1 = TRUE, !.location = ans.clients[1],
                          !.version = 1]]

\* updateExternalIP caching the reported text as it is
updateExternalIP_unparsed(c, ans) ==
    IF ~((c.version = 2 /\ c.client2) \/ (c.version = 1 /\ c.client1))
    THEN [err |-> "no IGD client available", c |-> c]
    ELSE IF ans.err THEN [err |-> "failed to get external IP", c |-> c]
    ELSE LET parsed == [c EXCEPT !.externalIP = ans.ip]
         IN IF ParseIP(ans.ip) = NilIP
            THEN [err |-> "invalid external IP address", c |-> parsed]
            ELSE [err |-> NoErr, c |-> parsed]

\* IGDClient.updateExternalIP
updateExternalIP(c, ans) ==
    IF ~((c.version = 2 /\ c.client2) \/ (c.version = 1 /\ c.client1))
    THEN [err |-> "no IGD client available", c |-> c]
    ELSE IF ans.err THEN [err |-> "failed to get external IP", c |-> c]
    ELSE LET parsed == [c EXCEPT !.externalIP = ParseIP(ans.ip)]
         IN IF parsed.externalIP = NilIP
            THEN [err |-> "invalid external IP address", c |-> parsed]
            ELSE [err |-> NoErr, c |-> parsed]

\* New trying IGD1 before IGD2
New_igd1First(net) ==
    LET d1 == discoverIGD1(ZeroClient, net.igd1)
        d2 == discoverIGD2(d1.c, net.igd2)
    IN IF d1.err # NoErr /\ d2.err # NoErr
       THEN [err |-> "failed to discover UPnP IGD device", client |-> NilClient,
             calls |-> <<"IGD1", "IGD2">>, warned |-> FALSE]
       ELSE LET c == IF d1.err = NoErr THEN d1.c ELSE d2.c
                u == updateExternalIP(c, net.ext)
            IN [err |-> NoErr, client |-> u.c,
                calls |-> (IF d1.err = NoErr THEN <<"IGD1">>
                           ELSE <<"IGD1", "IGD2">>)
                          \o <<"GetExternalIPAddress">>,
                warned |-> u.err # NoErr]

\* New(logger) on the network net: the error and the client returned, the
\* discoveries and queries made, whether the failed external-address query
\* was logged
New(net) ==
    LET d2 == discoverIGD2(ZeroClient, net.igd2)
        d1 == discoverIGD1(d2.c, net.igd1)
    IN IF d2.err # NoErr /\ d1.err # NoErr
       THEN [err |-> "failed to discover UPnP IGD device", client |-> NilClient,
             calls |-> <<"IGD2", "IGD1">>, warned |-> FALSE]
       ELSE LET c == IF d2.err = NoErr THEN d2.c ELSE d1.c
                u == updateExternalIP(c, net.ext)
            IN [err |-> NoErr, client |-> u.c,
                calls |-> (IF d2.err = NoErr THEN <<"IGD2">>
                           ELSE <<"IGD2", "IGD1">>)
                          \o <<"GetExternalIPAddress">>,
                warned |-> u.err # NoErr]

\* the speaker constructs its client
DoNew ==
    /\ last.op = "none"
    /\ LET r == New(snap)
       IN /\ igd' = r.client
          /\ last' = [op |-> "New", calls |-> r.calls, ret |-> r.err,
                      warned |-> r.warned]
    /\ UNCHANGED <<conc, mappings, router, snap, res>>

InitDiscover ==
    /\ mappings = <<>>
    /\ router = <<>>
    /\ igd = NilClient
    /\ last = [op |-> "none", calls |-> <<>>, ret |-> NoErr]
    /\ snap \in [igd2 : DiscoveryAnswers, igd1 : DiscoveryAnswers,
                 ext : ExternalIPAnswers]
    /\ res = NoSnap
    /\ config = NoConc[1]
    /\ mutex = NoConc[2]
    /\ frames = NoConc[3]

NextDiscover == DoNew

SpecDiscover == InitDiscover /\ [][NextDiscover]_vars

-----------------------------------------------------------------------------
(* internal/upnp/client.go: the client New returned, in use: the cached      *)
(* external IP refreshed, mappings added and deleted                         *)

\* Most calls made on the client after New.
MaxUses == 2

\* the networks the client is constructed on: no or one device per discovery
UseNetworks ==
    {net \in [igd2 : DiscoveryAnswers, igd1 : DiscoveryAnswers,
              ext : ExternalIPAnswers] :
        /\ net.igd2.clients \in {<<>>, <<"http://192.168.1.1:5000/a.xml">>}
        /\ net.igd1.clients \in {<<>>, <<"http://192.168.1.1:5000/b.xml">>}}

\* what GetExternalIPAddress returns to a refresh
RefreshAnswers ==
    ExternalIPAnswers \cup {[err |-> FALSE, ip |-> "198.51.100.7"]}

\* the mappings added through the constructed client
UseMappings ==
    {[ExternalPort |-> 80, InternalPort |-> 80, InternalIP |-> ip1,
      Protocol |-> pr, Description |-> "Test", Duration |-> 0] :
        pr \in {s_tcp, s_SCTP}}

\* the calls made on the client so far
Uses == IF "n" \in DOMAIN last THEN last.n ELSE 0

\* the client with the external IP known
Known(c) == [c EXCEPT !.externalIP = "203.0.113.1"]

\* IGDClient.RefreshExternalIP, the device answering ans
RefreshExternalIP(c, ans) == updateExternalIP(c, ans)

\* RefreshExternalIP() called on the client
UseRefreshExternalIP ==
    /\ last.op # "none"
    /\ igd # NilClient
    /\ Uses < MaxUses
    /\ \E ans \in RefreshAnswers :
        LET r == RefreshExternalIP(igd, ans)
        IN /\ igd' = r.c
           /\ last' = [op |-> "RefreshExternalIP", before |-> igd.externalIP,
                       ans |-> ans, ret |-> r.err, n |-> Uses + 1]
    /\ UNCHANGED <<conc, mappings, router, snap, res>>

\* AddPortMapping(mapping) called on the client
UseAddPortMapping ==
    /\ last.op # "none"
    /\ igd # NilClient
    /\ Uses < MaxUses
    /\ \E m \in UseMappings, failure \in {r_OK, r_ActionFailed} :
        LET resp == RespondWith(router, AddCall(m, ToUpper(m.Protocol)), failure)
            r == AddPortMapping(igd, router, m, resp)
        IN /\ r.calls = <<>> => failure = r_OK
           /\ router' = r.router
           /\ last' = [op |-> "AddPortMapping", mapping |-> m,
                       calls |-> r.calls, ret |-> r.err,
                       known |-> AddPortMapping(Known(igd), router, m, resp),
                       n |-> Uses + 1]
    /\ UNCHANGED <<conc, mappings, igd, snap, res>>

\* DeletePortMapping(externalPort, protocol) called on the client
UseDeletePortMapping ==
    /\ last.op # "none"
    /\ igd # NilClient
    /\ Uses < MaxUses
    /\ \E failure \in {r_OK, r_ActionFailed} :
        LET resp == RespondWith(router, DeleteCall(80, s_TCP), failure)
            r == DeletePortMapping(igd, router, 80, s_tcp, resp)
        IN /\ router' = r.router
           /\ last' = [op |-> "DeletePortMapping", externalPort |-> 80,
                       protocol |-> s_tcp, calls |-> r.calls, ret |-> r.err,
                       known |-> DeletePortMapping(Known(igd), router, 80,
                                                   s_tcp, resp),
                       n |-> Uses + 1]
    /\ UNCHANGED <<conc, mappings, igd, snap, res>>

InitUse ==
    /\ mappings = <<>>
    /\ router = <<>>
    /\ igd = NilClient
    /\ last = [op |-> "none", calls |-> <<>>, ret |-> NoErr]
    /\ snap \in UseNetworks
    /\ res = NoSnap
    /\ config = NoConc[1]
    /\ mutex = NoConc[2]
    /\ frames = NoConc[3]

NextUse ==
    DoNew \/ UseRefreshExternalIP \/ UseAddPortMapping \/ UseDeletePortMapping

SpecUse == InitUse /\ [][NextUse]_vars

-----------------------------------------------------------------------------
(* The reconciler's path for one service: ShouldAnnounce, then SetBalancer   *)
(* on the node that got the verdict "" (owner)                               *)

\* Most SetBalancer calls that follow one ShouldAnnounce.
MaxApplies == 2

s_3600 == <<51, 54, 48, 48>>
s_abc == <<97, 98, 99>>

\* the service of the scenario: marked for UPnP, port 80/TCP, with no lease
\* annotation, one that is no number, or one of an hour
ScenarioServices ==
    {[Namespace |-> k_a[1], Name |-> k_a[2], Annotations |-> an,
      Ports |-> <<[Port |-> 80, Protocol |-> s_TCP]>>] :
        an \in {[a \in {UPnPEnabledAnnotation} |-> s_true],
                [a \in {UPnPEnabledAnnotation, UPnPDurationAnnotation} |->
                    IF a = UPnPEnabledAnnotation THEN s_true ELSE s_abc],
                [a \in {UPnPEnabledAnnotation, UPnPDurationAnnotation} |->
                    IF a = UPnPEnabledAnnotation THEN s_true ELSE s_3600]}}

\* the cluster of the scenario: the local node, ready, and possibly a second
\* node that the pool does not name
ScenarioNodes ==
    LET node(st) == [Conditions |-> <<[Type |-> "Ready", Status |-> st]>>,
                     Labels |-> {}]
    IN {[n \in {myNode} |-> node("True")]}
       \cup {[n \in {myNode, n_2} |-> IF n = myNode THEN node("True") ELSE node(st)] :
                st \in {"True", "False"}}

\* the pool of the scenario: one enabled advertisement naming the local node
ScenarioPool ==
    [Name |-> "pool-a",
     UPnPAdvertisements |-> <<[Enabled |-> TRUE, Nodes |-> {myNode}]>>]

\* the endpoint slices of the service: whether each endpoint can serve
ScenarioEndpoints == {<<>>, <<FALSE>>, <<TRUE>>, <<FALSE, TRUE>>}

\* the orders in which the node map is iterated
ScenarioOrders(nodes) ==
    IF DOMAIN nodes = {myNode} THEN {<<myNode>>}
    ELSE {<<myNode, n_2>>, <<n_2, myNode>>}

\* ShouldAnnounce called for the service
ScenarioShouldAnnounce ==
    /\ last.op = "none"
    /\ \E order \in ScenarioOrders(snap.nodes) :
        last' = [op |-> "ShouldAnnounce", name |-> k_a, lbIPs |-> snap.lbIPs,
                 svc |-> snap.svc, calls |-> <<>>,
                 ret |-> ShouldAnnounce(myNode, snap.pool, snap.svc, snap.eps,
                                        snap.nodes, order),
                 notes |-> <<>>, events |-> <<>>, n |-> 0]
    /\ UNCHANGED <<conc, mappings, router, igd, snap, res>>

\* SetBalancer called for the service on the node that ShouldAnnounce
\* returned "" to
ScenarioSetBalancer ==
    /\ last.op # "none"
    /\ last.n < MaxApplies
    /\ last.op = "ShouldAnnounce" => last.ret = ""
    /\ \E fails \in FailSets(Len(Recorded(mappings, k_a)) + 1) :
        LET r == SetBalancer(igd, mappings, router, k_a, snap.lbIPs, snap.svc,
                             fails)
        IN /\ mappings' = r.mappings
           /\ router' = r.router
           /\ last' = [op |-> "SetBalancer", name |-> k_a,
                       lbIPs |-> snap.lbIPs, svc |-> snap.svc,
                       calls |-> r.calls, ret |-> r.ret, notes |-> r.notes,
                       events |-> r.events, n |-> last.n + 1]
    /\ UNCHANGED <<conc, igd, snap, res>>

InitScenario ==
    /\ mappings = <<>>
    /\ router = <<>>
    /\ igd = [version |-> 2, client1 |-> FALSE, client2 |-> TRUE,
              externalIP |-> "203.0.113.1"]
    /\ last = [op |-> "none", name |-> <<>>, lbIPs |-> <<>>, svc |-> NoSvc,
               calls |-> <<>>, ret |-> NoErr, notes |-> <<>>, events |-> <<>>,
               n |-> 0]
    /\ snap \in [pool : {ScenarioPool}, eps : ScenarioEndpoints,
                 nodes : ScenarioNodes, svc : ScenarioServices,
                 lbIPs : {<<ip1>>, <<"192.168.1.100">>}]
    /\ res = NoSnap
    /\ config = NoConc[1]
    /\ mutex = NoConc[2]
    /\ frames = NoConc[3]

NextScenario == ScenarioShouldAnnounce \/ ScenarioSetBalancer

SpecScenario == InitScenario /\ [][NextScenario]_vars

-----------------------------------------------------------------------------
(* The controller on a device that executes every add and delete, with no    *)
(* other actor changing the device                                           *)

\* the target addresses of a service: one or two
FaithfulLbIPs == {<<ip1>>, <<"192.168.1.100">>, <<ip1, "192.168.1.100">>}

\* the services: both keys can ask for port 80/TCP
FaithfulServices(name) ==
    {[Namespace |-> name[1], Name |-> name[2],
      Annotations |-> [a \in {UPnPEnabledAnnotation} |-> s_true],
      Ports |-> ps] :
        ps \in {<<[Port |-> 80, Protocol |-> s_TCP]>>,
                <<[Port |-> 443, Protocol |-> s_TCP]>>}}

\* a SetBalancer call, every device call of which is executed
FaithfulSetBalancer ==
    \E name \in Keys, lbIPs \in FaithfulLbIPs :
    \E svc \in FaithfulServices(name) :
        LET r == SetBalancer(igd, mappings, router, name, lbIPs, svc, {})
        IN /\ mappings' = r.mappings
           /\ router' = r.router
           /\ last' = [op |-> "SetBalancer", name |-> name, lbIPs |-> lbIPs,
                       svc |-> svc, calls |-> r.calls, ret |-> r.ret,
                       notes |-> r.notes, events |-> r.events]
           /\ UNCHANGED <<conc, igd, snap, res>>

\* a DeleteBalancer call, every device call of which is executed
FaithfulDeleteBalancer ==
    \E name \in Keys :
        LET r == DeleteBalancer(igd, mappings, router, name, {})
        IN /\ mappings' = r.mappings
           /\ router' = r.router
           /\ last' = [op |-> "DeleteBalancer", name |-> name, lbIPs |-> <<>>,
                       svc |-> NoSvc, calls |-> r.calls, ret |-> r.ret,
                       notes |-> r.notes, events |-> r.events]
           /\ UNCHANGED <<conc, igd, snap, res>>

NextFaithful == FaithfulSetBalancer \/ FaithfulDeleteBalancer

SpecFaithful == Init /\ [][NextFaithful]_vars

-----------------------------------------------------------------------------
(* Two nodes, each with its own controller and bookkeeping table, against    *)
(* one device: the former owner A runs DeleteBalancer and the new owner B    *)
(* runs SetBalancer for the same service key. In this specification mappings *)
(* holds the table of each node, and a step is one statement of a handler    *)
(* that touches the device or the node's table; the device executes one      *)
(* call at a time.                                                           *)

HandoverNodes == {"A", "B"}

\* the service, as A applied it while it was the owner and as B applies it
HandoverServices ==
    {[Namespace |-> k_a[1], Name |-> k_a[2],
      Annotations |-> [a \in {UPnPEnabledAnnotation} |-> s_true],
      Ports |-> ps] :
        ps \in {<<[Port |-> 80, Protocol |-> s_TCP]>>,
                <<[Port |-> 80, Protocol |-> s_TCP],
                  [Port |-> 443, Protocol |-> s_TCP]>>}}

\* what a node recorded, and the device holds, after a SetBalancer of svc
\* that the device executed
AppliedBefore(svc) ==
    SetBalancer([version |-> 2, client1 |-> FALSE, client2 |-> TRUE,
                 externalIP |-> "203.0.113.1"],
                <<>>, <<>>, k_a, <<ip1>>, svc, {})

\* the node enters its handler: DeleteBalancer on A, SetBalancer on B; the
\* head of deleteExistingMappings reads the node's record of the key
HandoverEnter(n) ==
    /\ frames[n].pc = "idle"
    /\ \E svc \in HandoverServices :
        frames' = [frames EXCEPT ![n] =
            [pc |-> IF k_a \in DOMAIN mappings[n] THEN "delete"
                    ELSE IF n = "B" THEN "add" ELSE "done",
             call |-> IF n = "A"
                      THEN [op |-> "DeleteBalancer", name |-> k_a,
                            svc |-> NoSvc, lbIPs |-> <<>>]
                      ELSE [op |-> "SetBalancer", name |-> k_a, svc |-> svc,
                            lbIPs |-> <<ip1>>],
             old |-> Recorded(mappings[n], k_a), i |-> 1,
             newMappings |-> <<>>]]
    /\ UNCHANGED <<mappings, router, igd, last, snap, res, config, mutex>>

\* deleteExistingMappings on node n: the next DeletePortMapping, executed or
\* failed by the device; past the last one, delete(c.mappings, name) and, in
\* DeleteBalancer, the notification
HandoverDelete(n) ==
    LET f == frames[n] IN
    /\ f.pc = "delete"
    /\ IF f.i > Len(f.old)
       THEN /\ mappings' = [mappings EXCEPT ![n] = MapDelete(@, k_a)]
            /\ frames' = [frames EXCEPT ![n] =
                    [f EXCEPT !.pc = IF f.call.op = "SetBalancer"
                                     THEN "add" ELSE "done", !.i = 1]]
            /\ UNCHANGED router
       ELSE /\ \E failure \in ConcFailures :
                LET call == DeleteCall(f.old[f.i].ExternalPort,
                                       ToUpper(f.old[f.i].Protocol))
                    r == DeletePortMapping(igd, router, f.old[f.i].ExternalPort,
                                           f.old[f.i].Protocol,
                                           RespondWith(router, call, failure))
                IN router' = r.router
            /\ frames' = [frames EXCEPT ![n].i = f.i + 1]
            /\ UNCHANGED mappings
    /\ UNCHANGED <<igd, last, snap, res, config, mutex>>

\* SetBalancer on node n: the next AddPortMapping, executed or failed by the
\* device; past the last one, c.mappings[name] = newMappings and the
\* notification
HandoverAdd(n) ==
    LET f == frames[n] IN
    /\ f.pc = "add"
    /\ IF f.i > Len(f.call.lbIPs) * Len(f.call.svc.Ports)
       THEN /\ mappings' = [mappings EXCEPT ![n] = MapPut(@, k_a, f.newMappings)]
            /\ frames' = [frames EXCEPT ![n].pc = "done"]
            /\ UNCHANGED router
       ELSE /\ \E failure \in ConcFailures :
                LET p == PortAt(f.call.svc, f.call.lbIPs, f.i)
                    call == AddCall(p.mapping, ToUpper(p.mapping.Protocol))
                    r == AddPortMapping(igd, router, p.mapping,
                                        RespondWith(router, call, failure))
                IN IF p.skip
                   THEN /\ failure = r_OK
                        /\ router' = router
                        /\ frames' = [frames EXCEPT ![n].i = f.i + 1]
                   ELSE /\ router' = r.router
                        /\ frames' = [frames EXCEPT ![n] =
                              [f EXCEPT !.i = f.i + 1,
                                        !.newMappings =
                                            IF r.err # NoErr THEN @
                                            ELSE Append(@, p.mapping)]]
            /\ UNCHANGED mappings
    /\ UNCHANGED <<igd, last, snap, res, config, mutex>>

InitHandover ==
    /\ \E svc \in HandoverServices, bWasOwner \in BOOLEAN :
        /\ mappings = [n \in HandoverNodes |->
                        IF n = "A" \/ bWasOwner
                        THEN AppliedBefore(svc).mappings ELSE <<>>]
        /\ router = AppliedBefore(svc).router
    /\ igd = [version |-> 2, client1 |-> FALSE, client2 |-> TRUE,
              externalIP |-> "203.0.113.1"]
    /\ last = [op |-> "none", calls |-> <<>>, ret |-> NoErr]
    /\ snap = NoSnap
    /\ res = NoSnap
    /\ config = NoConc[1]
    /\ mutex = NoConc[2]
    /\ frames = [n \in HandoverNodes |->
                    [pc |-> "idle", call |-> NoCall, old |-> <<>>, i |-> 0,
                     newMappings |-> <<>>]]

NextHandover ==
    \E n \in HandoverNodes :
        HandoverEnter(n) \/ HandoverDelete(n) \/ HandoverAdd(n)

SpecHandover == InitHandover /\ [][NextHandover]_vars

-----------------------------------------------------------------------------
(* What the claims speak of *)

AddCalls(calls) == SelectSeq(calls, LAMBDA x : x.call.op = "AddPortMapping")
DeleteCalls(calls) == SelectSeq(calls, LAMBDA x : x.call.op = "DeletePortMapping")

\* the device call that creates, resp. removes, the recorded mapping m
AddCallOf(m) == AddCall(m, ToUpper(m.Protocol))
DeleteCallOf(m) == DeleteCall(m.ExternalPort, ToUpper(m.Protocol))

\* the desired mappings of an apply: for every target address, every port of
\* the service with a non-zero port number and protocol tcp or udp
RECURSIVE Desired(_, _, _)
Desired(svc, lbIPs, i) ==
    IF i > Len(lbIPs) * Len(svc.Ports) THEN <<>>
    ELSE LET ip == lbIPs[((i - 1) \div Len(svc.Ports)) + 1]
             p == svc.Ports[((i - 1) % Len(svc.Ports)) + 1]
         IN IF p.Port # 0 /\ p.Protocol \in {s_TCP, s_UDP}
            THEN <<[ip |-> ip, port |-> p.Port, proto |-> p.Protocol]>>
                     \o Desired(svc, lbIPs, i + 1)
            ELSE Desired(svc, lbIPs, i + 1)

\* the recorded mapping m is the desired mapping d
Is(m, d) ==
    /\ m.ExternalPort = d.port /\ m.InternalPort = d.port
    /\ m.InternalIP = d.ip /\ ToUpper(m.Protocol) = d.proto

\* the call x adds the desired mapping d
Adds(x, d) ==
    /\ x.call.op = "AddPortMapping"
    /\ x.call.ExternalPort = d.port /\ x.call.InternalPort = d.port
    /\ x.call.InternalClient = d.ip /\ x.call.Protocol = d.proto

\* the last call was an apply of the lifecycle manager (SetBalancer for a
\* service marked for UPnP)
Applied == last.op = "SetBalancer" /\ isUPnPEnabled(last.svc)

\* C1 (full-replace law): an apply for key S, whatever it finds recorded for S
\* (say A and B), issues a device delete call for every mapping it finds, leaves
\* recorded only mappings it desires (none of A, B unless desired again), and,
\* when the device confirms every add, leaves exactly the desired mappings.
C1_FullReplace ==
    [][(last'.op = "SetBalancer" /\ isUPnPEnabled(last'.svc)) =>
        LET S == last'.name
            R == Recorded(mappings, S)
            D == Desired(last'.svc, last'.lbIPs, 1)
            dels == DeleteCalls(last'.calls)
            adds == AddCalls(last'.calls)
        IN /\ \A i \in 1..Len(R) :
                \E j \in 1..Len(dels) : dels[j].call = DeleteCallOf(R[i])
           /\ S \in DOMAIN mappings'
           /\ \A i \in 1..Len(mappings'[S]) :
                \E j \in 1..Len(D) : Is(mappings'[S][i], D[j])
           /\ (\A j \in 1..Len(adds) : adds[j].resp = r_OK) =>
                /\ Len(mappings'[S]) = Len(D)
                /\ \A i \in 1..Len(D) : Is(mappings'[S][i], D[i])
      ]_vars

\* C1 witness: apply(a, {80/tcp, 80/udp}) was followed by apply(a, {443/tcp}):
\* both old mappings were deleted on the device and only 443/tcp is recorded.
C1_Witness ==
    /\ Applied /\ last.name = k_a
    /\ Len(last.calls) = 3
    /\ last.calls[1].call = DeleteCall(80, s_TCP)
    /\ last.calls[2].call = DeleteCall(80, s_UDP)
    /\ last.calls[3].call.op = "AddPortMapping"
    /\ last.calls[3].call.ExternalPort = 443
    /\ last.calls[3].resp = r_OK
    /\ Len(mappings[k_a]) = 1
    /\ mappings[k_a][1].ExternalPort = 443

\* C2 (clean removal): a remove for key S leaves no record for S and issues a
\* device delete call for every mapping recorded for S just before, in order,
\* whether or not an earlier delete failed.
C2_CleanRemoval ==
    [][(last'.op = "DeleteBalancer") =>
        LET S == last'.name
            R == Recorded(mappings, S)
        IN /\ S \notin DOMAIN mappings'
           /\ Len(last'.calls) = Len(R)
           /\ \A i \in 1..Len(R) : last'.calls[i].call = DeleteCallOf(R[i])
      ]_vars

\* C2 witness: a remove whose first delete failed and whose second delete was
\* issued all the same.
C2_Witness ==
    /\ last.op = "DeleteBalancer"
    /\ Len(last.calls) = 2
    /\ last.calls[1].resp = r_ActionFailed
    /\ last.calls[2].call.op = "DeletePortMapping"
    /\ last.name \notin DOMAIN mappings

\* C3 (leak-freedom): every mapping present on the device (all of them were
\* created by this node) is recorded under some service key.
C3_LeakFree ==
    \A s \in DOMAIN router :
        \E k \in DOMAIN mappings : \E i \in 1..Len(mappings[k]) :
            Slot(DeleteCallOf(mappings[k][i]).ExternalPort,
                 DeleteCallOf(mappings[k][i]).Protocol) = s

\* the candidates of pool p on snapshot s: named by an enabled advertisement,
\* present in the node set, ready, not excluded from balancing
Eligible(s, p) ==
    {n \in NodeNames :
        /\ \E i \in 1..Len(s.advs[p]) : s.advs[p][i].Enabled /\ n \in s.advs[p][i].Nodes
        /\ n \in DOMAIN s.nodes
        /\ isNodeReady(s.nodes[n].Conditions)
        /\ ~isNodeExcludedFromBalancers(s.nodes[n])}

Smallest(S) == CHOOSE n \in S : \A m \in S : m = n \/ StrLess(n, m)

OwnerOf(s, p) == IF Eligible(s, p) = {} THEN None ELSE Smallest(Eligible(s, p))

Evaluated == "by" \in DOMAIN res.verdict

\* C4 (single owner): among the nodes that evaluated ShouldAnnounce for the
\* same service, pool and snapshot at most one has the verdict owner, and no
\* other node obtains it under any other order of its map iteration.
C4_SingleOwner ==
    Evaluated =>
        \A n \in NodeNames : res.verdict.by[n] = "" =>
            \A m \in NodeNames \ {n} :
                /\ res.verdict.by[m] # ""
                /\ \A o \in Orders :
                      ShouldAnnounce(m, PoolOf(snap, res.verdict.pool),
                                     res.verdict.svc, res.verdict.eps,
                                     snap.nodes, o) # ""

\* C4 witness: a node is owner for a pool that has several candidates.
C4_Witness ==
    /\ Evaluated
    /\ \E n \in NodeNames : res.verdict.by[n] = ""
    /\ Cardinality(Eligible(snap, res.verdict.pool)) >= 2

\* C5 as stated (owner iff marked, pool advertises, node is the elected
\* owner): the verdict of a node is owner exactly when the service is marked
\* for UPnP, the pool has UPnP advertisements and the node is the smallest
\* candidate.
C5_AsStated ==
    Evaluated =>
        \A n \in NodeNames :
            res.verdict.by[n] = "" <=>
                /\ isUPnPEnabled(res.verdict.svc)
                /\ poolSupportsUPnP(PoolOf(snap, res.verdict.pool))
                /\ n = OwnerOf(snap, res.verdict.pool)

\* C5 (owner iff marked, pool advertises, an endpoint is active, node is the
\* elected owner): the verdict of a node is owner exactly when the service is
\* marked for UPnP, the pool has UPnP advertisements, the service has an
\* active endpoint and the node is the smallest candidate of the pool; with
\* no candidate the verdict of every node is not-owner.
C5_OwnerIff ==
    Evaluated =>
        \A n \in NodeNames :
            /\ res.verdict.by[n] \in {"", "notOwner"}
            /\ res.verdict.by[n] = "" <=>
                /\ isUPnPEnabled(res.verdict.svc)
                /\ poolSupportsUPnP(PoolOf(snap, res.verdict.pool))
                /\ activeEndpointExists(res.verdict.eps)
                /\ n = OwnerOf(snap, res.verdict.pool)
            /\ Eligible(snap, res.verdict.pool) = {} => res.verdict.by[n] = "notOwner"

\* C5 witness: node n10 is owner of a marked service with an active endpoint
\* while n1, a smaller name the pool also names, is no candidate.
C5_Witness ==
    /\ Evaluated
    /\ res.verdict.by[n_10] = ""
    /\ \E i \in 1..Len(snap.advs[res.verdict.pool]) :
          /\ snap.advs[res.verdict.pool][i].Enabled
          /\ n_1 \in snap.advs[res.verdict.pool][i].Nodes
    /\ n_1 \notin Eligible(snap, res.verdict.pool)

\* C5 witness of no owner: a marked service with an active endpoint on a pool
\* that has enabled advertisements and no candidate: every node gets not-owner.
C5_WitnessNoOwner ==
    /\ Evaluated
    /\ isUPnPEnabled(res.verdict.svc)
    /\ activeEndpointExists(res.verdict.eps)
    /\ \E n \in NodeNames :
          nodeMatchesUPnPAdvertisements(n, PoolOf(snap, res.verdict.pool))
    /\ Eligible(snap, res.verdict.pool) = {}
    /\ \A n \in NodeNames : res.verdict.by[n] = "notOwner"

\* C6 (election determinism): computing the elected owner of every pool, and
\* every node's verdict, again on the same snapshot gives the recorded result
\* under every iteration order of the advertisements' node sets.
C6_Determinism ==
    \A o \in Orders :
        /\ \A p \in Pools : ElectedOf(snap, p, o) = res.elected[p]
        /\ Evaluated =>
              \A n \in NodeNames :
                  ShouldAnnounce(n, PoolOf(snap, res.verdict.pool),
                                 res.verdict.svc, res.verdict.eps, snap.nodes, o)
                      = res.verdict.by[n]

\* C6 witness: pool-a has two enabled advertisements that both name n10, at
\* least two candidates, and a verdict owner was computed.
C6_Witness ==
    /\ Evaluated
    /\ res.verdict.pool = "pool-a"
    /\ \E n \in NodeNames : res.verdict.by[n] = ""
    /\ Cardinality(Eligible(snap, "pool-a")) >= 2
    /\ \E i, j \in 1..Len(snap.advs["pool-a"]) :
          /\ i # j
          /\ snap.advs["pool-a"][i].Enabled /\ snap.advs["pool-a"][j].Enabled
          /\ n_10 \in snap.advs["pool-a"][i].Nodes \cap snap.advs["pool-a"][j].Nodes

\* C7 (election stability under churn): when a snapshot change makes the
\* elected owner of a pool stop being a candidate, the pool's new owner is the
\* smallest of the remaining candidates (none when nothing remains); and a
\* pool whose candidates did not change keeps its owner.
C7_Stability ==
    [][snap' # snap =>
        \A p \in Pools :
            /\ (res.elected[p] # None /\ res.elected[p] \notin Eligible(snap', p)) =>
                  res'.elected[p] =
                      IF Eligible(snap, p) \ {res.elected[p]} = {} THEN None
                      ELSE Smallest(Eligible(snap, p) \ {res.elected[p]})
            /\ Eligible(snap', p) = Eligible(snap, p) =>
                  res'.elected[p] = res.elected[p]]_vars

\* C7 witness: every node starts ready, so n1, named by an enabled
\* advertisement of pool-a, was its owner and has stopped being ready; pool-a
\* is now owned by n10, and pool-b, which does not name n1, still by n10.
C7_Witness ==
    /\ \E i \in 1..Len(snap.advs["pool-a"]) :
          /\ snap.advs["pool-a"][i].Enabled
          /\ n_1 \in snap.advs["pool-a"][i].Nodes
    /\ n_1 \in DOMAIN snap.nodes
    /\ ~isNodeReady(snap.nodes[n_1].Conditions)
    /\ Eligible(snap, "pool-a") = {n_10, n_2}
    /\ res.elected["pool-a"] = n_10
    /\ res.elected["pool-b"] = n_10

\* C8 (record = confirmed creations): after an apply the record of the key is
\* exactly the desired mappings whose add the device confirmed, in desired
\* order; a mapping whose add failed is not recorded.
C8_RecordIsConfirmed ==
    Applied =>
        LET D == Desired(last.svc, last.lbIPs, 1)
            adds == AddCalls(last.calls)
            confirmed == SelectSeq(D, LAMBDA d :
                \E j \in 1..Len(adds) : Adds(adds[j], d) /\ adds[j].resp = r_OK)
        IN /\ last.name \in DOMAIN mappings
           /\ Len(mappings[last.name]) = Len(confirmed)
           /\ \A i \in 1..Len(confirmed) : Is(mappings[last.name][i], confirmed[i])
           /\ \A j \in 1..Len(adds) : adds[j].resp # r_OK =>
                \A i \in 1..Len(mappings[last.name]) :
                    AddCallOf(mappings[last.name][i]) # adds[j].call

\* C8 witness: an apply of two desired mappings, the first add failed, the
\* second is the only one recorded, and an older record was replaced.
C8_Witness ==
    /\ Applied
    /\ Len(DeleteCalls(last.calls)) > 0
    /\ Len(AddCalls(last.calls)) = 2
    /\ AddCalls(last.calls)[1].resp = r_ActionFailed
    /\ AddCalls(last.calls)[2].resp = r_OK
    /\ Len(mappings[last.name]) = 1

\* C9 (failure isolation): an apply issues an add call for every desired
\* mapping, in desired order, whichever adds or deletes failed, and returns nil.
C9_FailureIsolation ==
    Applied =>
        LET D == Desired(last.svc, last.lbIPs, 1)
            adds == AddCalls(last.calls)
        IN /\ Len(adds) = Len(D)
           /\ \A i \in 1..Len(D) : Adds(adds[i], D[i])
           /\ last.ret = NoErr

\* C9 witness: the first add of an apply failed and the second was issued; the
\* apply returned nil.
C9_Witness ==
    /\ Applied
    /\ Len(AddCalls(last.calls)) = 2
    /\ AddCalls(last.calls)[1].resp = r_ActionFailed
    /\ last.ret = NoErr

\* C9 witness of the empty subset: the only add failed, nothing is recorded,
\* the apply returned nil.
C9_WitnessNone ==
    /\ Applied
    /\ Len(AddCalls(last.calls)) = 1
    /\ AddCalls(last.calls)[1].resp = r_ActionFailed
    /\ mappings[last.name] = <<>>
    /\ last.ret = NoErr

\* a protocol value that is tcp or udp, compared case-insensitively
Supported(p) == ToLower(p) \in {s_tcp, s_udp}

\* C10 (protocol validation): AddPortMapping of a nil mapping or of a protocol
\* other than tcp/udp (any case), and DeletePortMapping of such a protocol,
\* return an error and issue no device call; a supported protocol reaches the
\* device, when there is one, in upper case.
C10_ProtocolValidation ==
    /\ last.op = "AddPortMapping" =>
        /\ (last.mapping = NilMapping => last.ret # NoErr /\ last.calls = <<>>)
        /\ (last.mapping # NilMapping /\ ~Supported(last.mapping.Protocol)) =>
                last.ret # NoErr /\ last.calls = <<>>
        /\ (last.mapping # NilMapping /\ Supported(last.mapping.Protocol)
                /\ IsAvailable(igd)) =>
                /\ Len(last.calls) = 1
                /\ last.calls[1].call.Protocol \in {s_TCP, s_UDP}
                /\ ToLower(last.calls[1].call.Protocol) = ToLower(last.mapping.Protocol)
    /\ last.op = "DeletePortMapping" =>
        /\ ~Supported(last.protocol) => last.ret # NoErr /\ last.calls = <<>>
        /\ (Supported(last.protocol) /\ IsAvailable(igd)) =>
                /\ Len(last.calls) = 1
                /\ last.calls[1].call.Protocol \in {s_TCP, s_UDP}
                /\ ToLower(last.calls[1].call.Protocol) = ToLower(last.protocol)

\* C10 witness: a delete of protocol "uDP" reached the device as "UDP", after
\* an add of protocol "SCTP" was refused (nothing is on the device).
C10_Witness ==
    /\ last.op = "DeletePortMapping"
    /\ last.protocol = s_uDP
    /\ Len(last.calls) = 1
    /\ last.calls[1].call.Protocol = s_UDP

\* C10 witness of a refusal: an add of protocol "INVALID" on a client with a
\* device returned an error and issued no call.
C10_WitnessRefused ==
    /\ last.op = "AddPortMapping"
    /\ last.mapping # NilMapping
    /\ last.mapping.Protocol = s_INVALID
    /\ IsAvailable(igd)
    /\ last.ret # NoErr
    /\ last.calls = <<>>

\* the last call was a deleteMapping that reached the device
DeleteAnswered ==
    /\ last.op = "DeletePortMapping"
    /\ Len(last.calls) = 1

\* C11 (idempotent delete): a DeletePortMapping that the device answers with
\* the no-such-entry fault (714) returns nil, also when it repeats a delete of
\* the same mapping.
C11_IdempotentDelete ==
    (DeleteAnswered /\ FaultCode(last.calls[1].resp) = 714) => last.ret = NoErr

\* C11 witness: the delete of a mapping was repeated right after a delete of
\* the same mapping had returned nil; the device reported the entry absent and
\* the repeated delete returned nil.
C11_Witness ==
    /\ DeleteAnswered
    /\ last.again
    /\ last.calls[1].resp = r_NoSuchEntry
    /\ last.ret = NoErr

\* C12 (other faults are errors): a DeletePortMapping that the device answers
\* with a fault other than no-such-entry (714), or that fails in transport,
\* returns an error.
C12_OtherFaultsAreErrors ==
    (DeleteAnswered /\ last.calls[1].resp # r_OK
        /\ FaultCode(last.calls[1].resp) # 714) => last.ret # NoErr

\* an enumeration is under way or done on a client with a device
Enumerating == last.op = "GetPortMappings" /\ IsAvailable(igd)

\* C13 (bounded enumeration): GetPortMappings queries the indices 0, 1, 2, ...
\* in this order (the k-th query asks for index k-1), has returned once a
\* query is answered with the out-of-range fault, and issues no more than
\* 1000 queries whatever the device answers.
C13_BoundedEnumeration ==
    Enumerating =>
        /\ last.st.queries >= 1 =>
              /\ last.st.query.call = GetEntryCall(last.st.queries - 1)
              /\ last.st.query.resp = r_IndexInvalid => last.st.pc = "done"
        /\ last.st.queries <= 1000

\* C14 (apply notification): a SetBalancer call emits one status-change
\* notification, for its service, when the device confirmed at least one of
\* its adds, and none otherwise.
C14_ApplyNotifiesOnce ==
    last.op = "SetBalancer" =>
        IF \E j \in 1..Len(last.calls) :
              /\ last.calls[j].call.op = "AddPortMapping"
              /\ last.calls[j].resp = r_OK
        THEN last.notes = <<[Name |-> last.svc.Name, Namespace |-> last.svc.Namespace]>>
        ELSE last.notes = <<>>

\* C14 witness: an apply of two mappings of which the device confirmed both
\* emitted one notification.
C14_Witness ==
    /\ Applied
    /\ Len(AddCalls(last.calls)) = 2
    /\ \A j \in 1..2 : AddCalls(last.calls)[j].resp = r_OK
    /\ Len(last.notes) = 1

\* C14 witness of silence: an apply whose only add failed emitted nothing.
C14_WitnessNone ==
    /\ Applied
    /\ Len(AddCalls(last.calls)) = 1
    /\ AddCalls(last.calls)[1].resp # r_OK
    /\ last.notes = <<>>

\* C15 (remove notification): a DeleteBalancer call returns nil, leaves no
\* record for its key and emits exactly one status-change notification, for
\* the service the key names, whether or not a record existed and whether or
\* not a delete failed.
C15_RemoveNotifiesOnce ==
    last.op = "DeleteBalancer" =>
        /\ last.ret = NoErr
        /\ last.name \notin DOMAIN mappings
        /\ last.notes = <<[Name |-> last.name[2], Namespace |-> last.name[1]]>>

\* C15 witness: a remove whose delete call failed emitted its notification.
C15_Witness ==
    /\ last.op = "DeleteBalancer"
    /\ Len(last.calls) >= 1
    /\ last.calls[1].resp = r_ActionFailed
    /\ Len(last.notes) = 1

\* C15 witness without a record: a remove of a key that had no record, while
\* another key has one, emitted its notification.
C15_WitnessNoRecord ==
    /\ last.op = "DeleteBalancer"
    /\ last.calls = <<>>
    /\ DOMAIN mappings # {}
    /\ Len(last.notes) = 1

\* C16 (no mutation without eligibility): a ShouldAnnounce call issues no
\* device call and leaves the table and the device as they are; so does a
\* SetBalancer call for a service that is not marked for UPnP, which emits
\* no notification either.
C16_NoMutationWithoutEligibility ==
    [][/\ last'.op = "ShouldAnnounce" =>
            /\ mappings' = mappings /\ router' = router
            /\ last'.calls = <<>> /\ last'.notes = <<>>
       /\ (last'.op = "SetBalancer" /\ ~isUPnPEnabled(last'.svc)) =>
            /\ mappings' = mappings /\ router' = router
            /\ last'.calls = <<>> /\ last'.notes = <<>>
      ]_vars

\* C16 witness: an apply for key b, whose service is no longer marked, left
\* the record of b and the device entry as they were.
C16_Witness ==
    /\ last.op = "SetBalancer"
    /\ ~isUPnPEnabled(last.svc)
    /\ last.name \in DOMAIN mappings
    /\ Len(mappings[last.name]) >= 1
    /\ last.calls = <<>>

\* C16 witness of the verdict: ShouldAnnounce returned not-owner while the
\* table holds records.
C16_WitnessVerdict ==
    /\ last.op = "ShouldAnnounce"
    /\ last.ret = "notOwner"
    /\ DOMAIN mappings # {}

\* the goroutine is inside a handler, past c.mutex.Lock()
InBody(t) == frames[t].pc \notin {"idle", "lock"}

\* the step is a step of goroutine t alone
StepOf(t) ==
    /\ frames'[t] # frames[t]
    /\ \A u \in Goroutines \ {t} : frames'[u] = frames[u]

\* C17: SetBalancer, DeleteBalancer and SetConfig exclude one another: at most
\* one goroutine is inside a handler, it holds the mutex, and every change of
\* the bookkeeping table, the device's table or the configuration is a step of
\* that goroutine, so that two calls never interleave their device calls and
\* no update of the table is lost.
C17_MutualExclusion ==
    [][/\ \A t, u \in Goroutines : (InBody(t)' /\ InBody(u)') => t = u
       /\ \A t \in Goroutines : InBody(t)' => mutex' = t
       /\ (mappings' # mappings \/ router' # router \/ config' # config) =>
            \E t \in Goroutines : mutex = t /\ InBody(t) /\ StepOf(t)
      ]_vars

\* C17 witness: the second goroutine has called SetBalancer for the key the
\* first goroutine is applying, and waits for the mutex while the first one's
\* add is answered by the device.
C17_Witness ==
    /\ frames["g1"].pc = "adding"
    /\ frames["g1"].call.name = k_a
    /\ frames["g2"].pc = "lock"
    /\ frames["g2"].call.op = "SetBalancer"
    /\ frames["g2"].call.name = k_a
    /\ frames["g2"].call.svc # frames["g1"].call.svc
    /\ mutex = "g1"

\* C18: the mutex is never held by a goroutine whose device call is in
\* flight.
C18_NoLockAcrossDeviceCall ==
    \A t \in Goroutines : frames[t].inflight # NoCall => mutex # t

\* C19: when a call for a key returns, the record of the key is the one that
\* call produced: the mappings it created for an apply of a marked service, no
\* record for a remove; calls made one after the other by one goroutine
\* therefore leave the record of the last one.
C19_PerKeyOrdering ==
    [][\A t \in Goroutines :
        (frames[t].pc = "return" /\ frames'[t].pc = "idle") =>
            LET f == frames[t] IN
            /\ (f.call.op = "SetBalancer" /\ isUPnPEnabled(f.call.svc)) =>
                    /\ f.call.name \in DOMAIN mappings'
                    /\ mappings'[f.call.name] = f.newMappings
            /\ f.call.op = "DeleteBalancer" =>
                    f.call.name \notin DOMAIN mappings'
      ]_vars

\* C19 witness: a goroutine applied service a, creating a mapping, then
\* removed it; the remove is about to return and the key has no record, while
\* the other goroutine waits to apply the same key.
C19_Witness ==
    /\ last.op = "return"
    /\ last.g = "g1"
    /\ last.call.op = "SetBalancer"
    /\ last.call.name = k_a
    /\ Len(last.newMappings) = 1
    /\ frames["g1"].pc = "return"
    /\ frames["g1"].n = 2
    /\ frames["g1"].call.op = "DeleteBalancer"
    /\ frames["g1"].call.name = k_a
    /\ k_a \notin DOMAIN mappings
    /\ frames["g2"].pc = "lock"
    /\ frames["g2"].call.name = k_a

\* C19 witness: an apply of service a returns after an earlier apply of the
\* same key with another port, and the record is the later one's.
C19_WitnessReplace ==
    /\ last.op = "return"
    /\ last.call.op = "SetBalancer"
    /\ last.call.name = k_a
    /\ Len(last.newMappings) = 1
    /\ frames[last.g].pc = "return"
    /\ frames[last.g].call.op = "SetBalancer"
    /\ frames[last.g].call.name = k_a
    /\ Len(frames[last.g].newMappings) = 1
    /\ frames[last.g].newMappings # last.newMappings
    /\ mappings[k_a] = frames[last.g].newMappings

\* the discovery returned at least one device
Found(ans) == ~ans.err /\ Len(ans.clients) > 0

\* C20: New attempts the IGD2 discovery first and takes an IGD2 device
\* whenever that discovery returned one; it attempts the IGD1 discovery
\* exactly when the IGD2 discovery failed or returned no device; it returns
\* the discovery error exactly when neither discovery returned a device.
C20_DiscoveryOrder ==
    last.op = "New" =>
        /\ last.calls[1] = "IGD2"
        /\ Found(snap.igd2) =>
              /\ last.ret = NoErr
              /\ igd.version = 2 /\ igd.client2 /\ ~igd.client1
              /\ \E i \in 1..Len(snap.igd2.clients) :
                    igd.location = snap.igd2.clients[i]
        /\ (\E i \in 1..Len(last.calls) : last.calls[i] = "IGD1")
              <=> ~Found(snap.igd2)
        /\ (\E i \in 1..Len(last.calls) : last.calls[i] = "IGD1") =>
              last.calls[2] = "IGD1"
        /\ (~Found(snap.igd2) /\ Found(snap.igd1)) =>
              /\ last.ret = NoErr
              /\ igd.version = 1 /\ igd.client1 /\ ~igd.client2
        /\ last.ret # NoErr <=> (~Found(snap.igd2) /\ ~Found(snap.igd1))
        /\ last.ret # NoErr =>
              /\ last.ret = "failed to discover UPnP IGD device"
              /\ igd = NilClient

\* C20 witness: both discoveries would return devices; New took the IGD2
\* device and did not attempt the IGD1 discovery.
C20_Witness ==
    /\ last.op = "New"
    /\ Found(snap.igd2) /\ Found(snap.igd1)
    /\ last.calls = <<"IGD2", "GetExternalIPAddress">>
    /\ igd.version = 2

\* C20 witness: the IGD2 discovery returned no device without failing, and
\* New fell back to the IGD1 device.
C20_WitnessFallback ==
    /\ last.op = "New"
    /\ ~snap.igd2.err /\ snap.igd2.clients = <<>>
    /\ Found(snap.igd1)
    /\ last.calls = <<"IGD2", "IGD1", "GetExternalIPAddress">>
    /\ last.ret = NoErr
    /\ igd.version = 1

\* C20 witness: the IGD2 discovery failed and the IGD1 discovery returned no
\* device; New returned the discovery error.
C20_WitnessFails ==
    /\ last.op = "New"
    /\ snap.igd2.err
    /\ ~snap.igd1.err /\ snap.igd1.clients = <<>>
    /\ last.calls = <<"IGD2", "IGD1">>
    /\ last.ret = "failed to discover UPnP IGD device"

\* the devices of a discovery's answer, whatever the order of their answers
DevicesOf(ans) == {ans.clients[i] : i \in 1..Len(ans.clients)}

\* the device New selects on the network net
SelectedBy(net) == New(net).client.location

\* C21: the device New selected is the one it selects on every network where
\* the same sets of devices answered the two discoveries, in whatever order.
C21_DeterministicSelection ==
    (last.op = "New" /\ last.ret = NoErr) =>
        \A l2, l1 \in DeviceLists :
            (/\ DevicesOf([clients |-> l2]) = DevicesOf(snap.igd2)
             /\ DevicesOf([clients |-> l1]) = DevicesOf(snap.igd1)) =>
                SelectedBy([snap EXCEPT !.igd2.clients = l2,
                                        !.igd1.clients = l1]) = igd.location

\* C22: when a discovery returned a device, New returns the client and no
\* error also when the external-address query failed or returned a text that
\* is no address, the cached external IP is then nil, and AddPortMapping and
\* DeletePortMapping on the client return, call the device and leave its table
\* as they do on a client whose external IP is known.
C22_ExternalIPNonFatal ==
    /\ (last.op = "New" /\ (Found(snap.igd2) \/ Found(snap.igd1))) =>
          /\ last.ret = NoErr
          /\ igd # NilClient
          /\ IsAvailable(igd)
          /\ (snap.ext.err \/ ParseIP(snap.ext.ip) = NilIP) =>
                (igd.externalIP = NilIP /\ last.warned)
    /\ last.op \in {"AddPortMapping", "DeletePortMapping"} =>
          /\ last.ret = last.known.err
          /\ last.calls = last.known.calls
          /\ router = last.known.router

\* C22 witness: the external-address query failed at construction, and an
\* add through the client was confirmed by the device.
C22_Witness ==
    /\ last.op = "AddPortMapping"
    /\ snap.ext.err
    /\ igd.externalIP = NilIP
    /\ last.ret = NoErr
    /\ Len(last.calls) = 1
    /\ Slot(80, s_TCP) \in DOMAIN router

\* C22 witness: New returned a client although the device reported a text
\* that is no address.
C22_WitnessUnparsable ==
    /\ last.op = "New"
    /\ Found(snap.igd2)
    /\ ~snap.ext.err /\ snap.ext.ip = "not-an-ip"
    /\ last.ret = NoErr
    /\ igd.externalIP = NilIP

\* C22 witness: with no known external IP, a delete removed the mapping that
\* an add had created.
C22_WitnessDelete ==
    /\ last.op = "DeletePortMapping"
    /\ igd.externalIP = NilIP
    /\ last.ret = NoErr
    /\ Len(last.calls) = 1 /\ last.calls[1].resp = r_OK
    /\ router = <<>>

\* C29: a RefreshExternalIP that returns an error leaves the cached external
\* IP as it was; one that returns nil replaces it by the address the device
\* reported.
C29_RefreshKeepsCacheOnError ==
    last.op = "RefreshExternalIP" =>
        /\ last.ret # NoErr => igd.externalIP = last.before
        /\ last.ret = NoErr =>
              (~last.ans.err /\ igd.externalIP = ParseIP(last.ans.ip)
                 /\ igd.externalIP # NilIP)

\* the add call and the record of the scenario's mapping: port 80 to port 80
\* of the target address, TCP, with the given lease
ScenarioAdd(x, lease) ==
    /\ x.call.op = "AddPortMapping"
    /\ x.call.ExternalPort = 80 /\ x.call.InternalPort = 80
    /\ x.call.Protocol = s_TCP /\ x.call.Lease = lease
    /\ x.call.InternalClient = snap.lbIPs[1]
ScenarioRecord(m, lease) ==
    /\ m.ExternalPort = 80 /\ m.InternalPort = 80
    /\ ToUpper(m.Protocol) = s_TCP /\ m.Duration = lease
    /\ m.InternalIP = snap.lbIPs[1]

\* C23 as stated: in the scenario ShouldAnnounce returns owner, and SetBalancer
\* issues exactly one add call, for {80, 80, TCP, lease 0}, records exactly
\* that mapping and notifies exactly once.
C23_AsStated ==
    /\ last.op = "ShouldAnnounce" => last.ret = ""
    /\ last.op = "SetBalancer" =>
          /\ Len(AddCalls(last.calls)) = 1
          /\ ScenarioAdd(AddCalls(last.calls)[1], 0)
          /\ Len(Recorded(mappings, k_a)) = 1
          /\ ScenarioRecord(mappings[k_a][1], 0)
          /\ Len(last.notes) = 1

\* the lease the service asks for: that of a lease annotation that is a
\* non-negative number, else 0
ScenarioLease ==
    IF UPnPDurationAnnotation \in DOMAIN snap.svc.Annotations
       /\ snap.svc.Annotations[UPnPDurationAnnotation] = s_3600
    THEN 3600 ELSE 0

\* C23 amended: in the scenario ShouldAnnounce returns owner exactly when the
\* service has an active endpoint; SetBalancer issues exactly one add call,
\* for {80, 80, TCP} with the lease the service asks for (0 without a valid
\* lease annotation); when the device confirms the add it records exactly that
\* mapping and notifies exactly once, and otherwise records and notifies
\* nothing.
C23_Scenario ==
    /\ last.op = "ShouldAnnounce" =>
          (last.ret = "" <=> \E i \in 1..Len(snap.eps) : snap.eps[i])
    /\ last.op = "SetBalancer" =>
          /\ Len(AddCalls(last.calls)) = 1
          /\ ScenarioAdd(AddCalls(last.calls)[1], ScenarioLease)
          /\ last.ret = NoErr
          /\ IF AddCalls(last.calls)[1].resp = r_OK
             THEN /\ Len(Recorded(mappings, k_a)) = 1
                  /\ ScenarioRecord(mappings[k_a][1], ScenarioLease)
                  /\ Len(last.notes) = 1
                  /\ last.notes[1] = [Name |-> k_a[2], Namespace |-> k_a[1]]
             ELSE /\ Recorded(mappings, k_a) = <<>>
                  /\ last.notes = <<>>

\* C23 witness: the owner's first SetBalancer for the service without lease
\* annotation; the device confirmed the add of port 80/TCP with lease 0.
C23_Witness ==
    /\ last.op = "SetBalancer"
    /\ last.n = 1
    /\ DOMAIN snap.svc.Annotations = {UPnPEnabledAnnotation}
    /\ Len(last.calls) = 1
    /\ last.calls[1].resp = r_OK
    /\ last.calls[1].call.Lease = 0
    /\ Len(mappings[k_a]) = 1
    /\ Len(last.notes) = 1

\* C23 witness: ShouldAnnounce returned owner with a second, unnamed node in
\* the cluster.
C23_WitnessOwner ==
    /\ last.op = "ShouldAnnounce"
    /\ last.ret = ""
    /\ n_2 \in DOMAIN snap.nodes

\* every device call of the last handler call was executed by the device: an
\* add was confirmed, a delete removed the entry or found none
Faithful ==
    \A i \in 1..Len(last.calls) : last.calls[i].resp \in {r_OK, r_NoSuchEntry}

\* C24: within one apply no delete call follows an add call, and after an
\* apply that the device executed faithfully, the same apply once more, again
\* executed faithfully, leaves the record and the device's table as they are.
C24_RemoveBeforeInstall ==
    Applied =>
        /\ \A i, j \in 1..Len(last.calls) :
              (/\ last.calls[i].call.op = "AddPortMapping"
               /\ last.calls[j].call.op = "DeletePortMapping") => j < i
        /\ Faithful =>
              LET again == SetBalancer(igd, mappings, router, last.name,
                                       last.lbIPs, last.svc, {})
              IN /\ again.mappings = mappings
                 /\ again.router = router

\* C24 witness: an apply of two ports found both recorded from the apply
\* before it, deleted both and then added both, all confirmed by the device.
C24_Witness ==
    /\ Applied
    /\ Faithful
    /\ Len(last.calls) = 4
    /\ last.calls[1].call = DeleteCallOf(mappings[last.name][1])
    /\ last.calls[2].call = DeleteCallOf(mappings[last.name][2])
    /\ last.calls[1].resp = r_OK /\ last.calls[2].resp = r_OK
    /\ last.calls[3].call = AddCallOf(mappings[last.name][1])
    /\ last.calls[4].call = AddCallOf(mappings[last.name][2])

\* the enabled entries among the first n entries of the device's array, from
\* entry i on, in the array's order, as port mappings
RECURSIVE EnabledEntries(_, _, _)
EnabledEntries(rt, i, n) ==
    IF i > n THEN <<>>
    ELSE LET slot == ArrayOf(rt)[i]
         IN (IF rt[slot].Enabled
             THEN <<[ExternalPort |-> slot[1], Protocol |-> slot[2],
                     InternalPort |-> rt[slot].InternalPort,
                     InternalClient |-> rt[slot].InternalClient,
                     Description |-> rt[slot].Description,
                     Lease |-> rt[slot].Lease]>>
             ELSE <<>>) \o EnabledEntries(rt, i + 1, n)

\* the entry a returned mapping was made from
EntryOf(m, internalClient) ==
    [ExternalPort |-> m.ExternalPort, Protocol |-> m.Protocol,
     InternalPort |-> m.InternalPort, InternalClient |-> internalClient,
     Description |-> m.Description, Lease |-> m.Duration]

\* C25: a GetPortMappings that returns at the end-of-list fault returns the
\* enabled entries among those the device reported before it, all of them, in
\* the order the device reported them.
C25_EnabledEntriesInOrder ==
    (/\ Enumerating
     /\ last.st.pc = "done"
     /\ last.st.err = NoErr
     /\ last.st.query.resp \in {r_IndexInvalid, r_NoSuchEntry}) =>
        LET expected == EnabledEntries(router, 1, last.st.queries - 1)
        IN /\ Len(last.st.mappings) = Len(expected)
           /\ \A i \in 1..Len(expected) :
                EntryOf(last.st.mappings[i], expected[i].InternalClient)
                    = expected[i]

\* C26: every recorded mapping has a non-zero port, the same external and
\* internal port, and protocol tcp or udp; an apply issues add calls for its
\* desired entries only, never for a port 0 or a protocol other than TCP and
\* UDP, and returns nil whatever entries it skipped.
C26_RecordWellFormed ==
    /\ \A name \in DOMAIN mappings : \A i \in 1..Len(mappings[name]) :
          /\ mappings[name][i].ExternalPort # 0
          /\ mappings[name][i].ExternalPort = mappings[name][i].InternalPort
          /\ mappings[name][i].Protocol \in {s_tcp, s_udp}
    /\ Applied =>
          /\ last.ret = NoErr
          /\ Len(AddCalls(last.calls)) = Len(Desired(last.svc, last.lbIPs, 1))
          /\ \A i \in 1..Len(last.calls) :
                last.calls[i].call.op = "AddPortMapping" =>
                    /\ last.calls[i].call.ExternalPort # 0
                    /\ last.calls[i].call.Protocol \in {s_TCP, s_UDP}

\* C26 witness: an apply of service b with port 0/TCP and port 80/TCP issued
\* one add call, for port 80, and recorded that mapping alone.
C26_Witness ==
    /\ Applied
    /\ last.name = k_b
    /\ last.svc.Ports = <<[Port |-> 0, Protocol |-> s_TCP],
                          [Port |-> 80, Protocol |-> s_TCP]>>
    /\ Len(AddCalls(last.calls)) = 1
    /\ AddCalls(last.calls)[1].call.ExternalPort = 80
    /\ Len(mappings[k_b]) = 1
    /\ last.ret = NoErr

\* C26 witness: an apply whose only port has protocol SCTP issued no device
\* call, recorded nothing and returned nil.
C26_WitnessUnsupported ==
    /\ Applied
    /\ last.svc.Ports = <<[Port |-> 80, Protocol |-> s_SCTP]>>
    /\ last.calls = <<>>
    /\ mappings[last.name] = <<>>
    /\ last.ret = NoErr

\* C27: on a device that executes every add and delete, every mapping
\* recorded for any service key is on the device, with the recorded internal
\* address.
C27_RecordOnRouter ==
    \A name \in DOMAIN mappings : \A i \in 1..Len(mappings[name]) :
        LET m == mappings[name][i]
            slot == Slot(m.ExternalPort, ToUpper(m.Protocol))
        IN /\ slot \in DOMAIN router
           /\ router[slot].InternalClient = m.InternalIP

\* C28: once A's DeleteBalancer and B's SetBalancer for the key have both
\* completed, the device holds every mapping B has recorded for the key.
C28_HandoverKeepsMappings ==
    (frames["A"].pc = "done" /\ frames["B"].pc = "done") =>
        \A i \in 1..Len(Recorded(mappings["B"], k_a)) :
            Slot(mappings["B"][k_a][i].ExternalPort,
                 ToUpper(mappings["B"][k_a][i].Protocol)) \in DOMAIN router

====
